---- MODULE Spec2Model ----
(***************************************************************************)
(* Model of the bidirectional README synchronisation engine                *)
(* (readme_sync.core.sync_engine.SyncEngine), its identity store           *)
(* (readme_sync.services.database.DatabaseManager), its scanner            *)
(* (readme_sync.core.scanner.FileScanner) and the watcher callbacks        *)
(* (readme_sync.watcher.ReadmeFileHandler).                                *)
(*                                                                         *)
(* Files are modelled by (content, mtime); a content is a small integer,   *)
(* content 0 being the empty (zero byte) file.  Source paths are the       *)
(* integers 1..NumSources; a target path is a record [dir, base, ts]:      *)
(* dir 0 is the flat target root, dir 1 a user subfolder, dir 2 the        *)
(* unlinked (quarantine) subfolder; base identifies the file name, base k  *)
(* being the canonical name "<project k>-README.md";                       *)
(* ts is the "_<timestamp>" suffix move_unlinked_files appends (NoTs when  *)
(* the name has none).  Time is counted in whole seconds.                  *)
(***************************************************************************)
EXTENDS Integers, Sequences, FiniteSets, TLC

\* ------------------------------------------------------------------ bounds
NumSources == 2
NumProjects == 2
MaxContent == 2
MaxTime == 7
MaxEdits == 2
NumThreads == 2

\* ------------------------------------------------------- program constants
_sync_cooldown == 3
tolerance_seconds == 5
debounce_time == 2
RecentEditWindow == 3600

Sources == 1..NumSources
Projects == 1..NumProjects
Contents == 0..MaxContent
Threads == 1..NumThreads

RootDir == 0
SubDir == 1
UnlinkedDir == 2
NoTs == -1

NoPath == [dir |-> -1, base |-> 0, ts |-> NoTs]
\* where the user creates files: any name, in the root or in a subfolder
UserPaths == [dir : {RootDir, SubDir}, base : Projects, ts : {NoTs}]

Min(a, b) == IF a < b THEN a ELSE b
Abs(x) == IF x < 0 THEN -x ELSE x

\* ---------------------------------------------------------------- state
VARIABLES
    project,    \* source path -> project directory name (fixed by the layout)
    src,        \* source path -> [exists, content, mtime]
    tgt,        \* existing target path -> [content, mtime]
    db,         \* file_mappings rows in rowid order
    locks,      \* SyncEngine._sync_locks
    recent,     \* SyncEngine._recent_syncs
    now,        \* time.time()
    config,     \* ConfigManager: the sync_settings the engine reads
    out,        \* what the last call returned and did
    edits,      \* number of user edits so far
    pc,         \* per thread: position inside sync_single_file
    tres,       \* per thread: the source path it works on and its verdict
    pending,    \* ReadmeFileHandler.pending_events of the two watchers
    hist        \* scenario position and observations of the scripted runs

vars == <<project, src, tgt, db, locks, recent, now, config, out, edits, pc, tres,
          pending, hist>>

\* The engine's view of the world, threaded through the operators below.
Cur == [project |-> project, src |-> src, tgt |-> tgt, db |-> db,
        locks |-> locks, recent |-> recent, now |-> now, config |-> config,
        log |-> {}]

\* ------------------------------------------------------------ file system
\* hashlib.md5 of the bytes: distinct contents have distinct digests, the
\* digest of the empty file is a non-empty string, and an unreadable
\* (missing) file yields "" (NoHash), which Python treats as false.
NoHash == 0
md5(c) == c + 1

source_exists(st, s) == s \in DOMAIN st.src /\ st.src[s].exists
target_exists(st, p) == p \in DOMAIN st.tgt

\* the process may open README s for reading (a file it may not read still
\* answers os.path.exists, getsize and getmtime)
readable(st, s) == s \notin st.config.unreadable

\* get_file_hash returns "" when the file cannot be opened
get_file_hash_source(st, s) ==
    IF source_exists(st, s) /\ readable(st, s) THEN md5(st.src[s].content) ELSE NoHash
get_file_hash(st, p) ==
    IF target_exists(st, p) THEN md5(st.tgt[p].content) ELSE NoHash

source_mtime_of(st, s) == st.src[s].mtime
target_mtime_of(st, p) == st.tgt[p].mtime

\* os.walk(target_folder): the root's files first, then the subfolders.
PathKey(p) == (p.dir * (NumProjects + 1) + p.base) * (MaxTime + 3) + (p.ts + 1)

RECURSIVE WalkOrder(_)
WalkOrder(S) ==
    IF S = {} THEN <<>>
    ELSE LET p == CHOOSE x \in S : \A y \in S : PathKey(x) <= PathKey(y)
         IN <<p>> \o WalkOrder(S \ {p})

Reverse(seq) == [i \in 1..Len(seq) |-> seq[Len(seq) + 1 - i]]

\* The source the store maps target path p to when a copy touches it (0: none).
owner_of(st, p) ==
    IF \E i \in 1..Len(st.db) : st.db[i].target_path = p
    THEN st.db[CHOOSE i \in 1..Len(st.db) :
                   /\ st.db[i].target_path = p
                   /\ \A j \in 1..(i - 1) : st.db[j].target_path # p].source_path
    ELSE 0

\* shutil.copy2 copies the bytes and the modification time.
copy2_source_to_target(st, s, p) ==
    [st EXCEPT !.tgt = [q \in DOMAIN st.tgt \cup {p} |->
                            IF q = p THEN [content |-> st.src[s].content,
                                           mtime |-> st.src[s].mtime]
                            ELSE st.tgt[q]],
               !.log = @ \cup {[kind |-> "s2t", source |-> s, path |-> p,
                                 owner |-> owner_of(st, p)]}]

\* shutil.copy2 with its two arguments exchanged
copy2_target_to_source_swapped(st, p, s) ==
    [st EXCEPT !.tgt[p] = [content |-> st.src[s].content, mtime |-> st.src[s].mtime],
               !.log = @ \cup {[kind |-> "t2s", source |-> s, path |-> p,
                                 owner |-> owner_of(st, p)]}]

copy2_target_to_source(st, p, s) ==
    [st EXCEPT !.src[s] = [exists |-> TRUE, content |-> st.tgt[p].content,
                           mtime |-> st.tgt[p].mtime],
               !.log = @ \cup {[kind |-> "t2s", source |-> s, path |-> p,
                                 owner |-> owner_of(st, p)]}]

\* shutil.move of a file: a rename, replacing a file already at new_path.
shutil_move(st, old_path, new_path, kind) ==
    IF old_path = new_path THEN st
    ELSE [st EXCEPT !.tgt = [q \in (DOMAIN st.tgt \ {old_path}) \cup {new_path} |->
                                IF q = new_path THEN st.tgt[old_path] ELSE st.tgt[q]],
                    !.log = @ \cup {[kind |-> kind, source |-> 0, path |-> old_path,
                                      owner |-> owner_of(st, old_path)]}]

\* ------------------------------------------------------------ scanner
\* FileScanner.extract_project_name: the parent directory's name.
extract_project_name(st, s) == st.project[s]

\* FileScanner.generate_target_filename: "<project>-README" + ".md".
generate_target_filename(project_name) == [base |-> project_name, ts |-> NoTs]

basename(p) == [base |-> p.base, ts |-> p.ts]
join(dir, name) == [dir |-> dir, base |-> name.base, ts |-> name.ts]

\* ConfigManager.get_enabled_source_folders: README s lies under its own source
\* root, which the configuration lists as enabled or not.
enabled_source(st, s) == s \in st.config.enabled

RECURSIVE SeqOfSources(_, _)
SeqOfSources(st, s) ==
    IF s > NumSources THEN <<>>
    ELSE (IF source_exists(st, s) /\ enabled_source(st, s) THEN <<s>> ELSE <<>>)
         \o SeqOfSources(st, s + 1)

\* FileScanner.scan_all_sources: the README files under the enabled roots.
scan_all_sources(st) == SeqOfSources(st, 1)

\* FileScanner.scan_target_folder: every .md file under the target root.
scan_target_folder(st) == WalkOrder(DOMAIN st.tgt)

\* ------------------------------------------------------------ identity store
NoMapping == [source_path |-> 0, target_path |-> NoPath, project_name |-> 0,
              renamed_filename |-> [base |-> 0, ts |-> NoTs],
              source_hash |-> NoHash, target_hash |-> NoHash,
              source_mtime |-> 0, target_mtime |-> 0,
              last_sync_time |-> 0, updated_at |-> 0]

IsMapping(m) == m.source_path # 0

\* fetchone(): the first of the selected rows, None when there is none
FirstRow(rows, hits) ==
    IF hits = {} THEN NoMapping
    ELSE rows[CHOOSE i \in hits : \A j \in hits : i <= j]

get_file_mapping(st, source_path) ==
    FirstRow(st.db, {i \in 1..Len(st.db) : st.db[i].source_path = source_path})

find_mapping_by_target(st, target_path) ==
    FirstRow(st.db, {i \in 1..Len(st.db) : st.db[i].target_path = target_path})

find_mapping_by_hash(st, file_hash) ==
    FirstRow(st.db, {i \in 1..Len(st.db) :
                        \/ st.db[i].source_hash = file_hash
                        \/ st.db[i].target_hash = file_hash})

\* the most recently updated row whose renamed_filename equals the name
find_mapping_by_filename(st, name) ==
    FirstRow(st.db, {i \in 1..Len(st.db) :
                        /\ st.db[i].renamed_filename = name
                        /\ \A j \in 1..Len(st.db) :
                              st.db[j].renamed_filename = name
                                  => st.db[j].updated_at <= st.db[i].updated_at})

\* the row add_file_mapping writes: live hashes and mtimes, 0 for a missing file
new_row(st, source_path, target_path, project_name, renamed_filename) ==
    [source_path |-> source_path, target_path |-> target_path,
     project_name |-> project_name, renamed_filename |-> renamed_filename,
     source_hash |-> get_file_hash_source(st, source_path),
     target_hash |-> get_file_hash(st, target_path),
     source_mtime |-> IF source_exists(st, source_path)
                      THEN source_mtime_of(st, source_path) ELSE 0,
     target_mtime |-> IF target_exists(st, target_path)
                      THEN target_mtime_of(st, target_path) ELSE 0,
     last_sync_time |-> st.now, updated_at |-> st.now]

\* a plain INSERT, as if source_path were not UNIQUE
add_file_mapping_insert(st, source_path, target_path, project_name, renamed_filename) ==
    [st EXCEPT !.db = Append(@, new_row(st, source_path, target_path, project_name,
                                        renamed_filename))]

\* INSERT OR REPLACE: the row of this source_path is replaced by a new row
add_file_mapping(st, source_path, target_path, project_name, renamed_filename) ==
    LET keep(r) == r.source_path # source_path
    IN [st EXCEPT !.db = Append(SelectSeq(@, keep),
                                new_row(st, source_path, target_path, project_name,
                                        renamed_filename))]

\* a retargeting that renames the file along with the pointer
update_target_path_renaming(st, old_target, new_target) ==
    [st EXCEPT !.db = [i \in 1..Len(@) |->
                          IF @[i].target_path = old_target
                          THEN [@[i] EXCEPT !.target_path = new_target,
                                            !.updated_at = st.now]
                          ELSE @[i]],
               !.tgt = [q \in (DOMAIN @ \ {old_target}) \cup {new_target} |->
                           IF q = new_target THEN @[old_target] ELSE @[q]]]

update_target_path(st, old_target, new_target) ==
    [st EXCEPT !.db = [i \in 1..Len(@) |->
        IF @[i].target_path = old_target
        THEN [@[i] EXCEPT !.target_path = new_target, !.updated_at = st.now]
        ELSE @[i]]]

\* update_sync_time called without the optional arguments: only the time is set
update_sync_time_bare(st, source_path, source_hash, target_hash, source_mtime, target_mtime) ==
    [st EXCEPT !.db = [i \in 1..Len(@) |->
        IF @[i].source_path = source_path
        THEN [@[i] EXCEPT !.last_sync_time = st.now, !.updated_at = st.now]
        ELSE @[i]]]

update_sync_time(st, source_path, source_hash, target_hash, source_mtime, target_mtime) ==
    [st EXCEPT !.db = [i \in 1..Len(@) |->
        IF @[i].source_path = source_path
        THEN [@[i] EXCEPT !.last_sync_time = st.now, !.updated_at = st.now,
                          !.source_hash = source_hash, !.target_hash = target_hash,
                          !.source_mtime = source_mtime, !.target_mtime = target_mtime]
        ELSE @[i]]]

remove_mapping(st, source_path) ==
    LET keep(r) == r.source_path # source_path
    IN [st EXCEPT !.db = SelectSeq(@, keep)]

\* ------------------------------------------------------------ concurrency guard
\* a guard without the cooldown test
_can_sync_locks_only(st, file_path) == file_path \notin st.locks

_can_sync(st, file_path) ==
    IF file_path \in st.locks THEN FALSE
    ELSE IF file_path \in DOMAIN st.recent
            /\ st.now - st.recent[file_path] < _sync_cooldown THEN FALSE
    ELSE TRUE

\* a guard that looks the path up in the wrong table
_acquire_sync_lock_ok_recent(st, file_path) == file_path \notin DOMAIN st.recent

\* whether _acquire_sync_lock returns True
_acquire_sync_lock_ok(st, file_path) == file_path \notin st.locks

_acquire_sync_lock(st, file_path) ==
    IF file_path \in st.locks THEN st
    ELSE [st EXCEPT !.locks = @ \cup {file_path}]

\* a release that stamps the cooldown time and leaves the path locked
_release_sync_lock_stamp_only(st, file_path) ==
    [st EXCEPT !.recent = [f \in DOMAIN @ \cup {file_path} |->
                              IF f = file_path THEN st.now ELSE @[f]]]

_release_sync_lock(st, file_path) ==
    [st EXCEPT !.locks = @ \ {file_path},
               !.recent = [f \in DOMAIN @ \cup {file_path} |->
                              IF f = file_path THEN st.now ELSE @[f]]]

\* the sweep of the cooldown map; no code of the package calls it
_cleanup_old_syncs(st) ==
    LET expired_files == {f \in DOMAIN st.recent :
                             st.now - st.recent[f] > _sync_cooldown * 2}
    IN [st EXCEPT !.recent = [f \in DOMAIN @ \ expired_files |-> @[f]]]

\* ------------------------------------------------------------ decision engine
\* "the newer side wins", without the tolerance
_handle_dual_modification_latest(st, source_mtime, target_mtime, last_sync_time) ==
    IF target_mtime >= source_mtime THEN "no_sync" ELSE "source_to_target"

_handle_dual_modification(st, source_mtime, target_mtime, last_sync_time) ==
    LET tolerance == st.config.tolerance_seconds
        source_time_since_sync == source_mtime - last_sync_time
        target_time_since_sync == target_mtime - last_sync_time
        time_diff == Abs(source_mtime - target_mtime)
    IN IF target_time_since_sync > source_time_since_sync
          /\ (target_mtime - source_mtime) > tolerance THEN "no_sync"
       ELSE IF source_time_since_sync > target_time_since_sync
          /\ (source_mtime - target_mtime) > tolerance THEN "source_to_target"
       ELSE IF time_diff <= tolerance THEN "no_sync"
       ELSE IF target_mtime > source_mtime THEN "no_sync"
       ELSE "conflict"

\* the verdict taken from the modification times alone when the hashes differ
_determine_sync_action_by_mtime(st, source_path, target_path, mapping) ==
    IF ~source_exists(st, source_path) THEN [st |-> st, action |-> "no_sync"]
    ELSE IF ~target_exists(st, target_path)
    THEN [st |-> st, action |-> "source_to_target"]
    ELSE IF get_file_hash_source(st, source_path) = get_file_hash(st, target_path)
    THEN [st |-> IF IsMapping(mapping)
                 THEN update_sync_time(st, source_path,
                                       get_file_hash_source(st, source_path),
                                       get_file_hash(st, target_path),
                                       source_mtime_of(st, source_path),
                                       target_mtime_of(st, target_path))
                 ELSE st,
          action |-> "no_sync"]
    ELSE [st |-> st,
          action |-> _handle_dual_modification_latest(st,
                         source_mtime_of(st, source_path),
                         target_mtime_of(st, target_path), mapping.last_sync_time)]

\* Returns the verdict and the state (equal contents refresh the baseline).
_determine_sync_action(st, source_path, target_path, mapping) ==
    IF ~source_exists(st, source_path) THEN [st |-> st, action |-> "no_sync"]
    ELSE IF ~target_exists(st, target_path)
    THEN [st |-> st, action |-> "source_to_target"]
    ELSE
    LET source_mtime == source_mtime_of(st, source_path)
        target_mtime == target_mtime_of(st, target_path)
        source_hash == get_file_hash_source(st, source_path)
        target_hash == get_file_hash(st, target_path)
        last_sync_source_hash == mapping.source_hash
        last_sync_target_hash == mapping.target_hash
        last_sync_time == mapping.last_sync_time
        source_changed == IF last_sync_source_hash # NoHash
                          THEN last_sync_source_hash # source_hash ELSE TRUE
        target_changed == IF last_sync_target_hash # NoHash
                          THEN last_sync_target_hash # target_hash ELSE TRUE
        tolerance == st.config.tolerance_seconds
        time_diff == Abs(source_mtime - target_mtime)
    IN IF source_hash = target_hash
       THEN [st |-> IF IsMapping(mapping)
                    THEN update_sync_time(st, source_path, source_hash, target_hash,
                                          source_mtime, target_mtime)
                    ELSE st,
             action |-> "no_sync"]
       ELSE IF ~source_changed /\ target_changed
       THEN [st |-> st, action |-> "target_to_source"]
       ELSE IF source_changed /\ ~target_changed
       THEN [st |-> st, action |-> "source_to_target"]
       ELSE IF source_changed /\ target_changed
       THEN [st |-> st,
             action |-> _handle_dual_modification(st, source_mtime, target_mtime,
                                                  last_sync_time)]
       ELSE IF time_diff <= tolerance THEN [st |-> st, action |-> "no_sync"]
       ELSE IF target_mtime > source_mtime THEN [st |-> st, action |-> "no_sync"]
       ELSE [st |-> st, action |-> "source_to_target"]

\* ------------------------------------------------------------ sync executor
\* The first file under the target root, in walk order, named target_filename.
_find_existing_target_file(st, target_filename) ==
    LET hits == {p \in DOMAIN st.tgt : basename(p) = target_filename}
    IN IF hits = {} THEN NoPath
       ELSE CHOOSE p \in hits : \A q \in hits : PathKey(p) <= PathKey(q)

_move_target_file(st, old_path, new_path) ==
    shutil_move(st, old_path, new_path, "move")

\* update_sync_time with the live hashes and modification times of the pair
refresh_baseline(st, source_path, target_path) ==
    update_sync_time(st, source_path,
                     get_file_hash_source(st, source_path),
                     get_file_hash(st, target_path),
                     source_mtime_of(st, source_path),
                     target_mtime_of(st, target_path))

\* add_file_mapping, then update_sync_time with the live values
record_sync(st, source_path, target_path, project_name, target_filename) ==
    refresh_baseline(add_file_mapping(st, source_path, target_path, project_name,
                                      target_filename),
                     source_path, target_path)

\* _perform_sync once the target path is settled; copy is FALSE when an
\* existing file was adopted instead of being written.  A copy from a
\* missing file raises, and the handler returns 'error'.
_perform_sync_to(st, source_path, target_path, project_name, target_filename, action, copy) ==
    IF action = "source_to_target" /\ copy
    THEN (IF ~source_exists(st, source_path) \/ ~readable(st, source_path)
          THEN [st |-> st, result |-> "error"]
          ELSE [st |-> record_sync(copy2_source_to_target(st, source_path, target_path),
                                   source_path, target_path, project_name,
                                   target_filename),
                result |-> "synced"])
    ELSE IF action = "target_to_source"
    THEN (IF ~target_exists(st, target_path) \/ ~source_exists(st, source_path)
          THEN [st |-> st, result |-> "error"]
          ELSE [st |-> record_sync(copy2_target_to_source(st, target_path, source_path),
                                   source_path, target_path, project_name,
                                   target_filename),
                result |-> "synced"])
    ELSE IF ~source_exists(st, source_path) \/ ~target_exists(st, target_path)
    THEN [st |-> add_file_mapping(st, source_path, target_path, project_name,
                                  target_filename),
          result |-> "error"]
    ELSE [st |-> record_sync(st, source_path, target_path, project_name,
                             target_filename),
          result |-> "synced"]

_perform_sync(st, source_path, target_path, project_name, target_filename, action) ==
    IF action = "source_to_target" /\ ~target_exists(st, target_path)
       /\ _find_existing_target_file(st, target_filename) # NoPath
    THEN _perform_sync_to(st, source_path,
                          _find_existing_target_file(st, target_filename),
                          project_name, target_filename, action, FALSE)
    ELSE _perform_sync_to(st, source_path, target_path, project_name,
                          target_filename, action, TRUE)

\* The row has no 'target_filename' column: the name is always regenerated.
_perform_reverse_sync(st, source_path, target_path, mapping) ==
    IF ~target_exists(st, target_path) THEN [st |-> st, result |-> "error"]
    ELSE IF ~source_exists(st, source_path) THEN [st |-> st, result |-> "error"]
    ELSE IF IsMapping(mapping)
    THEN [st |-> record_sync(copy2_target_to_source(st, target_path, source_path),
                             source_path, target_path, mapping.project_name,
                             generate_target_filename(
                                 extract_project_name(st, source_path))),
          result |-> "reverse_synced"]
    ELSE [st |-> refresh_baseline(copy2_target_to_source(st, target_path, source_path),
                                  source_path, target_path),
          result |-> "reverse_synced"]

\* target_priority resolved as source_priority
_handle_conflict_swapped(st, source_path, target_path, mapping) ==
    LET resolution == st.config.conflict_resolution
        source_mtime == source_mtime_of(st, source_path)
        target_mtime == target_mtime_of(st, target_path)
        target_modification_gap == target_mtime - mapping.last_sync_time
        verdict ==
            IF IsMapping(mapping) /\ target_modification_gap > 0
               /\ target_modification_gap < RecentEditWindow THEN "no_sync"
            ELSE IF resolution = "latest"
            THEN (IF target_mtime > source_mtime THEN "no_sync" ELSE "source_to_target")
            ELSE IF resolution = "source_priority" THEN "no_sync"
            ELSE IF resolution = "target_priority" THEN "source_to_target"
            ELSE "conflict"
    IN IF verdict = "source_to_target"
       THEN _perform_sync(st, source_path, target_path,
                          extract_project_name(st, source_path),
                          generate_target_filename(extract_project_name(st, source_path)),
                          "source_to_target")
       ELSE [st |-> st, result |-> verdict]

_handle_conflict(st, source_path, target_path, mapping) ==
    LET resolution == st.config.conflict_resolution
        source_mtime == source_mtime_of(st, source_path)
        target_mtime == target_mtime_of(st, target_path)
        target_modification_gap == target_mtime - mapping.last_sync_time
        verdict ==
            IF IsMapping(mapping) /\ target_modification_gap > 0
               /\ target_modification_gap < RecentEditWindow THEN "no_sync"
            ELSE IF resolution = "latest"
            THEN (IF target_mtime > source_mtime THEN "no_sync" ELSE "source_to_target")
            ELSE IF resolution = "source_priority" THEN "source_to_target"
            ELSE IF resolution = "target_priority" THEN "no_sync"
            ELSE "conflict"
    IN IF verdict = "source_to_target"
       THEN _perform_sync(st, source_path, target_path,
                          extract_project_name(st, source_path),
                          generate_target_filename(extract_project_name(st, source_path)),
                          "source_to_target")
       ELSE [st |-> st, result |-> verdict]

\* ------------------------------------------------------------ sync_single_file
\* a verdict source_to_target that is not acted upon
sync_act_idle(d, source_path, target_path, mapping) ==
    IF d.action \in {"no_sync", "source_to_target"}
    THEN [st |-> d.st, result |-> "no_change"]
    ELSE IF d.action = "conflict"
    THEN _handle_conflict(d.st, source_path, target_path, mapping)
    ELSE _perform_reverse_sync(d.st, source_path, target_path, mapping)

\* Lines 225-238: act on the verdict d of _determine_sync_action.
sync_act(d, source_path, target_path, mapping) ==
    IF d.action = "no_sync" THEN [st |-> d.st, result |-> "no_change"]
    ELSE IF d.action = "conflict"
    THEN _handle_conflict(d.st, source_path, target_path, mapping)
    ELSE IF d.action = "target_to_source"
    THEN _perform_reverse_sync(d.st, source_path, target_path, mapping)
    ELSE _perform_sync(d.st, source_path, target_path,
                       extract_project_name(d.st, source_path),
                       generate_target_filename(extract_project_name(d.st, source_path)),
                       d.action)

sync_decide(st, source_path, target_path, mapping) ==
    sync_act(_determine_sync_action(st, source_path, target_path, mapping),
             source_path, target_path, mapping)

\* a rename of the recorded file whenever its name differs from the resolved one
handle_path_change_moving(st, source_path, mapping, existing_target_file, target_path) ==
    IF IsMapping(mapping) /\ mapping.target_path # target_path
       /\ target_exists(st, mapping.target_path)
    THEN (IF basename(mapping.target_path) # basename(target_path)
          THEN [st |-> _move_target_file(st, mapping.target_path, target_path),
                path |-> target_path, raised |-> FALSE]
          ELSE [st |-> st, path |-> mapping.target_path, raised |-> FALSE])
    ELSE [st |-> st, path |-> target_path, raised |-> FALSE]

\* Lines 176-223: the mapping points elsewhere than the resolved target path.
\* Returns the state after the move handling, the path the verdict is taken
\* on, and whether the copy at line 211 raised.
handle_path_change(st, source_path, mapping, existing_target_file, target_path) ==
    LET old == mapping.target_path
        changed == IsMapping(mapping) /\ old # target_path /\ target_exists(st, old)
        retarget == changed /\ (existing_target_file # NoPath
                                \/ target_exists(st, target_path))
        renamed == changed /\ ~retarget /\ basename(old) # basename(target_path)
        src_size == IF source_exists(st, source_path)
                    THEN st.src[source_path].content ELSE -1
    IN IF retarget
       THEN [st |-> update_target_path(st, old, target_path), path |-> target_path,
             raised |-> FALSE]
       ELSE IF renamed /\ src_size = 0 /\ ~readable(st, source_path)
       THEN [st |-> st, path |-> target_path, raised |-> TRUE]
       ELSE IF renamed /\ src_size = 0
       THEN [st |-> update_target_path(
                        copy2_source_to_target(st, source_path, target_path),
                        old, target_path),
             path |-> target_path, raised |-> FALSE]
       ELSE IF renamed
       THEN [st |-> _move_target_file(st, old, target_path), path |-> target_path,
             raised |-> FALSE]
       ELSE IF changed THEN [st |-> st, path |-> old, raised |-> FALSE]
       ELSE [st |-> st, path |-> target_path, raised |-> FALSE]

\* Lines 176-238: the move handling, then the verdict on the path it settled.
sync_path_changed(st, source_path, mapping, existing_target_file, target_path) ==
    LET h == handle_path_change(st, source_path, mapping, existing_target_file,
                                target_path)
    IN IF h.raised THEN [st |-> st, result |-> "raised"]
       ELSE sync_decide(h.st, source_path, h.path, mapping)

\* Lines 164-174: an existing file of that name anywhere under the target
\* root, else the canonical name in the target root.
sync_resolve(st, source_path, mapping, existing_target_file) ==
    sync_path_changed(st, source_path, mapping, existing_target_file,
        IF existing_target_file # NoPath THEN existing_target_file
        ELSE join(RootDir, basename(generate_target_filename(
                               extract_project_name(st, source_path)))))

\* Lines 161-238, between the acquisition and the release of the lock.
sync_single_file_body(st, source_path) ==
    sync_resolve(st, source_path, get_file_mapping(st, source_path),
                 _find_existing_target_file(st,
                     generate_target_filename(extract_project_name(st, source_path))))

sync_single_file(st, source_path) ==
    IF ~_can_sync(st, source_path) THEN [st |-> st, result |-> "skipped"]
    ELSE IF ~_acquire_sync_lock_ok(st, source_path)
    THEN [st |-> st, result |-> "locked"]
    ELSE LET r == sync_single_file_body(_acquire_sync_lock(st, source_path),
                                        source_path)
         IN [r EXCEPT !.st = _release_sync_lock(@, source_path)]

\* ------------------------------------------------------------ reconciliation pass
\* FileScanner.detect_moved_files: unmapped target files whose content hash is
\* recorded on a mapping that points elsewhere.
moved_entry(st, p) ==
    [old_target_path |-> find_mapping_by_hash(st, get_file_hash(st, p)).target_path,
     new_target_path |-> p]

is_moved(st, p) ==
    /\ ~IsMapping(find_mapping_by_target(st, p))
    /\ get_file_hash(st, p) # NoHash
    /\ IsMapping(find_mapping_by_hash(st, get_file_hash(st, p)))
    /\ find_mapping_by_hash(st, get_file_hash(st, p)).target_path # p

RECURSIVE detect_moved_loop(_, _)
detect_moved_loop(st, files) ==
    IF files = <<>> THEN <<>>
    ELSE (IF is_moved(st, Head(files)) THEN <<moved_entry(st, Head(files))>> ELSE <<>>)
         \o detect_moved_loop(st, Tail(files))

detect_moved_files(st) == detect_moved_loop(st, scan_target_folder(st))

RECURSIVE apply_moved(_, _)
apply_moved(st, moved_files) ==
    IF moved_files = <<>> THEN st
    ELSE apply_moved(update_target_path(st, Head(moved_files).old_target_path,
                                        Head(moved_files).new_target_path),
                     Tail(moved_files))

\* source_path.startswith(source_folder) for some enabled root: the README's
\* own root, or a root whose path is a string prefix of that root's path
\* (config.prefixed holds such pairs of sibling roots, as /w/app and /w/app2)
is_in_scope(st, source_path) ==
    \E source_folder \in st.config.enabled :
        source_folder = source_path \/ <<source_folder, source_path>> \in st.config.prefixed

\* the rows cleanup_orphaned_mappings removes
should_remove(st, r) ==
    ~source_exists(st, r.source_path) \/ ~is_in_scope(st, r.source_path)

orphaned_count(st) == Cardinality({i \in 1..Len(st.db) : should_remove(st, st.db[i])})

cleanup_orphaned_mappings(st) ==
    LET keep(r) == ~should_remove(st, r)
    IN [st EXCEPT !.db = SelectSeq(@, keep)]

find_unlinked_files(st) ==
    LET tracked == {st.db[i].target_path : i \in 1..Len(st.db)}
        files_with_missing_source ==
            {st.db[i].target_path : i \in
                {j \in 1..Len(st.db) : ~source_exists(st, st.db[j].source_path)
                                       /\ target_exists(st, st.db[j].target_path)}}
        unlinked_files == {p \in DOMAIN st.tgt : p.dir # UnlinkedDir /\ p \notin tracked}
    IN unlinked_files \cup files_with_missing_source

\* unlinked/<name>, or unlinked/<name>_<timestamp> when that name is taken
unlinked_path(st, file_path) ==
    IF target_exists(st, join(UnlinkedDir, basename(file_path)))
    THEN [dir |-> UnlinkedDir, base |-> file_path.base, ts |-> st.now]
    ELSE join(UnlinkedDir, basename(file_path))

RECURSIVE move_unlinked_loop(_, _, _)
move_unlinked_loop(st, files, moved_count) ==
    IF files = <<>> THEN [st |-> st, moved |-> moved_count]
    ELSE move_unlinked_loop(
             shutil_move(st, Head(files), unlinked_path(st, Head(files)), "quarantine"),
             Tail(files), moved_count + 1)

\* The list of unlinked files is built from a set: rev picks its iteration order.
move_unlinked_files(st, rev) ==
    move_unlinked_loop(st,
        IF rev THEN Reverse(WalkOrder(find_unlinked_files(st)))
        ELSE WalkOrder(find_unlinked_files(st)), 0)

\* ------------------------------------------------------------ reverse passes
\* Lines 548-562: the first scanned source whose canonical name is the file's.
matching_source(st, target_path) ==
    LET hits == {s \in Sources :
                    /\ source_exists(st, s) /\ enabled_source(st, s)
                    /\ generate_target_filename(extract_project_name(st, s))
                           = basename(target_path)}
    IN IF hits = {} THEN 0 ELSE CHOOSE s \in hits : \A q \in hits : s <= q

adopt_source(st, source_path) == [st |-> st, mapping |-> get_file_mapping(st, source_path)]

\* Lines 529-568: the mapping a target file resolves to (by path, by content
\* hash, by file name, by the canonical name of a scanned source), and the
\* store after the retargeting this lookup performs.
resolve_target_mapping(st, target_path, with_source_scan) ==
    IF IsMapping(find_mapping_by_target(st, target_path))
    THEN [st |-> st, mapping |-> find_mapping_by_target(st, target_path)]
    ELSE IF IsMapping(find_mapping_by_hash(st, get_file_hash(st, target_path)))
    THEN [st |-> update_target_path(st,
                     find_mapping_by_hash(st, get_file_hash(st, target_path)).target_path,
                     target_path),
          mapping |-> find_mapping_by_hash(st, get_file_hash(st, target_path))]
    ELSE IF IsMapping(find_mapping_by_filename(st, basename(target_path)))
    THEN [st |-> update_target_path(st,
                     find_mapping_by_filename(st, basename(target_path)).target_path,
                     target_path),
          mapping |-> find_mapping_by_filename(st, basename(target_path))]
    ELSE IF with_source_scan /\ matching_source(st, target_path) # 0
    THEN adopt_source(add_file_mapping(st, matching_source(st, target_path), target_path,
                          extract_project_name(st, matching_source(st, target_path)),
                          basename(target_path)),
                      matching_source(st, target_path))
    ELSE [st |-> st, mapping |-> NoMapping]

\* the fallback of lines 590-605: reverse only on the verdict target_to_source
reverse_fallback(d, source_path, target_path, mapping) ==
    IF d.action = "target_to_source"
    THEN _perform_reverse_sync(d.st, source_path, target_path, mapping)
    ELSE [st |-> d.st, result |-> "kept"]

\* Lines 576-610: the guarded decision of the reverse pass for one target file.
reverse_decide(st, source_path, target_path, mapping) ==
    IF get_file_hash(st, target_path) # get_file_hash_source(st, source_path)
       /\ (target_mtime_of(st, target_path) - source_mtime_of(st, source_path))
              > st.config.tolerance_seconds
    THEN _perform_reverse_sync(st, source_path, target_path, mapping)
    ELSE reverse_fallback(_determine_sync_action(st, source_path, target_path, mapping),
                          source_path, target_path, mapping)

\* a forced pass that copies back only a target newer than its source
reverse_forced_newer(st, source_path, target_path, mapping) ==
    IF get_file_hash_source(st, source_path) # get_file_hash(st, target_path)
       /\ target_mtime_of(st, target_path) > source_mtime_of(st, source_path)
    THEN _perform_reverse_sync(st, source_path, target_path, mapping)
    ELSE [st |-> st, result |-> "kept"]

\* reverse_all(force=True): any difference is copied back
reverse_forced(st, source_path, target_path, mapping) ==
    IF get_file_hash_source(st, source_path) # get_file_hash(st, target_path)
    THEN _perform_reverse_sync(st, source_path, target_path, mapping)
    ELSE [st |-> st, result |-> "kept"]

reverse_tally(acc, mode, source_path, r) ==
    [acc EXCEPT !.st = _release_sync_lock(r.st, source_path),
                !.synced = @ + (IF r.result = "reverse_synced" THEN 1 ELSE 0),
                !.errors = @ + (IF r.result = "error" /\ mode = "from_target"
                                THEN 1 ELSE 0)]

reverse_resolved(acc, target_path, mode, m) ==
    IF ~IsMapping(m.mapping)
    THEN [acc EXCEPT !.st = m.st, !.no_mapping = @ + 1]
    ELSE IF ~source_exists(m.st, m.mapping.source_path)
            \/ (mode # "from_target" /\ ~target_exists(m.st, target_path))
    THEN [acc EXCEPT !.st = m.st]
    ELSE IF ~_can_sync(m.st, m.mapping.source_path)
            \/ ~_acquire_sync_lock_ok(m.st, m.mapping.source_path)
    THEN [acc EXCEPT !.st = m.st]
    ELSE IF mode = "force"
    THEN reverse_tally(acc, mode, m.mapping.source_path,
             reverse_forced(_acquire_sync_lock(m.st, m.mapping.source_path),
                            m.mapping.source_path, target_path, m.mapping))
    ELSE reverse_tally(acc, mode, m.mapping.source_path,
             reverse_decide(_acquire_sync_lock(m.st, m.mapping.source_path),
                            m.mapping.source_path, target_path, m.mapping))

\* One target file of a reverse pass.  mode "from_target" is
\* reverse_sync_from_target, "all" is reverse_all(force=False) and "force" is
\* reverse_all(force=True).
reverse_one(acc, target_path, mode) ==
    reverse_resolved(acc, target_path, mode,
        resolve_target_mapping(acc.st, target_path, mode = "from_target"))

RECURSIVE reverse_loop(_, _, _)
reverse_loop(acc, target_files, mode) ==
    IF target_files = <<>> THEN acc
    ELSE reverse_loop(reverse_one(acc, Head(target_files), mode),
                      Tail(target_files), mode)

reverse_pass(st, mode) ==
    reverse_loop([st |-> st, scanned |-> Cardinality(DOMAIN st.tgt), synced |-> 0,
                  errors |-> 0, no_mapping |-> 0], scan_target_folder(st), mode)

reverse_sync_from_target(st) == reverse_pass(st, "from_target")

reverse_all(st, force) == reverse_pass(st, IF force THEN "force" ELSE "all")

\* the copy without the test that the source exists
force_sync_mapped_unchecked(st, target_path, mapping) ==
    IF ~IsMapping(mapping) THEN [st |-> st, result |-> FALSE]
    ELSE IF ~target_exists(st, target_path) THEN [st |-> st, result |-> FALSE]
    ELSE [st |-> refresh_baseline(
                     copy2_target_to_source(st, target_path, mapping.source_path),
                     mapping.source_path, target_path),
          result |-> TRUE]

\* Manual conflict resolution: no guard, the mapping is found by path or hash.
force_sync_mapped(st, target_path, mapping) ==
    IF ~IsMapping(mapping) THEN [st |-> st, result |-> FALSE]
    ELSE IF ~source_exists(st, mapping.source_path) THEN [st |-> st, result |-> FALSE]
    ELSE IF ~target_exists(st, target_path) THEN [st |-> st, result |-> FALSE]
    ELSE [st |-> refresh_baseline(
                     copy2_target_to_source(st, target_path, mapping.source_path),
                     mapping.source_path, target_path),
          result |-> TRUE]

force_sync_target_to_source(st, target_path) ==
    force_sync_mapped(st, target_path,
        IF IsMapping(find_mapping_by_target(st, target_path))
        THEN find_mapping_by_target(st, target_path)
        ELSE find_mapping_by_hash(st, get_file_hash(st, target_path)))

\* SyncEngine.get_conflicts: the mapped pairs whose files both exist, differ in
\* content and have both changed since the baseline.
get_conflicts(st) ==
    {[source_path |-> r.source_path, target_path |-> r.target_path,
      source_mtime |-> source_mtime_of(st, r.source_path),
      target_mtime |-> target_mtime_of(st, r.target_path),
      last_sync_time |-> r.last_sync_time,
      source_newer |-> source_mtime_of(st, r.source_path)
                           > target_mtime_of(st, r.target_path),
      target_newer |-> target_mtime_of(st, r.target_path)
                           > source_mtime_of(st, r.source_path)] :
        r \in {st.db[i] : i \in
                 {j \in 1..Len(st.db) :
                     /\ source_exists(st, st.db[j].source_path)
                     /\ target_exists(st, st.db[j].target_path)
                     /\ get_file_hash_source(st, st.db[j].source_path)
                            # get_file_hash(st, st.db[j].target_path)
                     /\ (IF st.db[j].source_hash # NoHash
                         THEN st.db[j].source_hash
                                  # get_file_hash_source(st, st.db[j].source_path)
                         ELSE TRUE)
                     /\ (IF st.db[j].target_hash # NoHash
                         THEN st.db[j].target_hash
                                  # get_file_hash(st, st.db[j].target_path)
                         ELSE TRUE)}}}

\* ------------------------------------------------------------ sync_all
\* the results dictionary of lines 79-87 (st: the state the call has reached)
\* attempted: the files the forward pass called sync_single_file on, in order,
\* each with what the call returned ("raised": it raised an exception)
NoResults == [st |-> <<>>, scanned |-> 0, synced |-> 0, reverse_synced |-> 0,
              conflicts |-> 0, errors |-> 0, moved_detected |-> 0,
              unlinked_moved |-> 0, attempted |-> <<>>]

failed(result) == result \in {"raised", "error"}

forward_tally(acc, source_path, r) ==
    [acc EXCEPT !.st = r.st,
                !.synced = @ + (IF r.result = "synced" THEN 1 ELSE 0),
                !.reverse_synced = @ + (IF r.result = "reverse_synced" THEN 1 ELSE 0),
                !.conflicts = @ + (IF r.result = "conflict" THEN 1 ELSE 0),
                !.errors = @ + (IF r.result = "raised" THEN 1 ELSE 0),
                !.attempted = Append(@, [source |-> source_path, result |-> r.result])]

\* the first failure ends the forward pass
forward_one_abort(acc, source_path) ==
    IF \E i \in 1..Len(acc.attempted) : failed(acc.attempted[i].result) THEN acc
    ELSE forward_tally(acc, source_path, sync_single_file(acc.st, source_path))

forward_one(acc, source_path) ==
    forward_tally(acc, source_path, sync_single_file(acc.st, source_path))

RECURSIVE forward_loop(_, _)
forward_loop(acc, readme_files) ==
    IF readme_files = <<>> THEN acc
    ELSE forward_loop(forward_one(acc, Head(readme_files)), Tail(readme_files))

\* step 5: the reverse pass, elapsed seconds after the forward pass began
sync_all_reverse(results, reverse) ==
    [results EXCEPT !.st = reverse.st, !.reverse_synced = @ + reverse.synced]

\* step 4.1: quarantine the unlinked files
sync_all_unlinked(results, unl, elapsed) ==
    sync_all_reverse([results EXCEPT !.unlinked_moved = unl.moved],
                     reverse_sync_from_target([unl.st EXCEPT !.now = @ + elapsed]))

\* step 4: drop the mappings whose source is gone
sync_all_cleanup(results, elapsed, rev) ==
    sync_all_unlinked(results,
        IF results.st.config.move_unlinked_files
        THEN move_unlinked_files(cleanup_orphaned_mappings(results.st), rev)
        ELSE [st |-> cleanup_orphaned_mappings(results.st), moved |-> 0],
        elapsed)

\* steps 2 and 3: scan the sources and synchronise each README
sync_all_scan(st, moved_detected, elapsed, rev) ==
    IF scan_all_sources(st) = <<>>
    THEN [NoResults EXCEPT !.st = st, !.moved_detected = moved_detected]
    ELSE sync_all_cleanup(
             forward_loop([NoResults EXCEPT !.st = st,
                               !.scanned = Len(scan_all_sources(st)),
                               !.moved_detected = moved_detected],
                          scan_all_sources(st)),
             elapsed, rev)

\* step 1: retarget the mappings of moved files
sync_all_moved(st, moved_files, elapsed, rev) ==
    sync_all_scan(apply_moved(st, moved_files), Len(moved_files), elapsed, rev)

\* elapsed: the seconds the forward pass took; rev: see move_unlinked_files.
sync_all(st, elapsed, rev) ==
    sync_all_moved(st, detect_moved_files(st), elapsed, rev)

\* ------------------------------------------------------------ initial states
\* Source trees: the first project directory is called project 1; a later
\* one may carry the same name as an earlier one (under another root).


\* the counters a call returns
ResultsOf(r) == [scanned |-> r.scanned, synced |-> r.synced,
                 reverse_synced |-> r.reverse_synced, conflicts |-> r.conflicts,
                 errors |-> r.errors, moved_detected |-> r.moved_detected,
                 unlinked_moved |-> r.unlinked_moved]

Idle == [op |-> "none", source |-> 0, result |-> "none", target_path |-> NoPath,
         results |-> ResultsOf(NoResults), log |-> {}]

\* a thread outside the engine
NoCall == [kind |-> "none", source |-> 0, path |-> NoPath, mapping |-> NoMapping,
           result |-> "none", began |-> 0]

NoFile == [content |-> -1, mtime |-> -1]

\* no event waits in the source-side handlers nor in the target-side handler
NoPending == [source |-> <<>>, target |-> <<>>]

NoHist == [stage |-> 0, source |-> 0, path |-> NoPath, content |-> -1,
           sfile |-> NoFile, tfile |-> NoFile, flag |-> "none", anchor |-> 0,
           before |-> <<>>,
           s2t |-> 0, t2s |-> 0]

\* A fresh installation: an empty target folder, an empty store, an empty
\* guard, no thread inside the engine, no pending watcher event.
Fresh ==
    /\ project \in {f \in [Sources -> Projects] : f[1] = 1}
    /\ tgt = <<>>
    /\ db = <<>>
    /\ locks = {}
    /\ recent = <<>>
    /\ now = 1
    /\ config = [conflict_resolution |-> "latest", move_unlinked_files |-> TRUE,
                 tolerance_seconds |-> tolerance_seconds, enabled |-> Sources,
                 unreadable |-> {}, prefixed |-> {}]
    /\ out = Idle
    /\ edits = 0
    /\ pc = [t \in Threads |-> "idle"]
    /\ tres = [t \in Threads |-> NoCall]
    /\ pending = NoPending
    /\ hist = NoHist

\* README files with pairwise different contents in the source trees.
Init ==
    /\ Fresh
    /\ src = [s \in Sources |->
                [exists |-> TRUE, content |-> Min(s, MaxContent), mtime |-> 0]]

\* README files with any contents in the source trees.
InitAnyContent ==
    /\ Fresh
    /\ src \in [Sources -> [exists : {TRUE}, content : Contents, mtime : {0}]]

\* Install the engine's resulting state.
Install(st) ==
    /\ src' = st.src
    /\ tgt' = st.tgt
    /\ db' = st.db
    /\ locks' = st.locks
    /\ recent' = st.recent
    /\ now' = st.now

\* ------------------------------------------------------------ the user
\* Time passes: a cooldown window (Advance) or one second (Tick).
Advance ==
    /\ now + _sync_cooldown <= MaxTime
    /\ now' = now + _sync_cooldown
    /\ UNCHANGED <<project, src, tgt, db, locks, recent, config, out, edits,
                   pc, tres, pending, hist>>

Tick ==
    /\ now + 1 <= MaxTime
    /\ now' = now + 1
    /\ UNCHANGED <<project, src, tgt, db, locks, recent, config, out, edits,
                   pc, tres, pending, hist>>

UserDid == [Idle EXCEPT !.op = "user"]

write_source(s, c) ==
    src' = [src EXCEPT ![s] = [exists |-> TRUE, content |-> c, mtime |-> now]]

write_target(p, c) ==
    tgt' = [q \in DOMAIN tgt \cup {p} |->
               IF q = p THEN [content |-> c, mtime |-> now] ELSE tgt[q]]

WriteSource ==
    /\ edits < MaxEdits
    /\ \E s \in Sources, c \in Contents : write_source(s, c)
    /\ edits' = edits + 1
    /\ out' = UserDid
    /\ UNCHANGED <<project, tgt, db, locks, recent, now, config, pc, tres,
                   pending, hist>>

DeleteSource ==
    /\ edits < MaxEdits
    /\ \E s \in Sources :
          /\ src[s].exists
          /\ src' = [src EXCEPT ![s] = [exists |-> FALSE, content |-> 0, mtime |-> 0]]
    /\ edits' = edits + 1
    /\ out' = UserDid
    /\ UNCHANGED <<project, tgt, db, locks, recent, now, config, pc, tres,
                   pending, hist>>

WriteTarget ==
    /\ edits < MaxEdits
    /\ \E p \in UserPaths \cup DOMAIN tgt, c \in Contents : write_target(p, c)
    /\ edits' = edits + 1
    /\ out' = UserDid
    /\ UNCHANGED <<project, src, db, locks, recent, now, config, pc, tres,
                   pending, hist>>

MoveTarget ==
    /\ edits < MaxEdits
    /\ \E p \in DOMAIN tgt, q \in UserPaths \ DOMAIN tgt :
          tgt' = [r \in (DOMAIN tgt \ {p}) \cup {q} |->
                     IF r = q THEN tgt[p] ELSE tgt[r]]
    /\ edits' = edits + 1
    /\ out' = UserDid
    /\ UNCHANGED <<project, src, db, locks, recent, now, config, pc, tres,
                   pending, hist>>

DeleteTarget ==
    /\ edits < MaxEdits
    /\ \E p \in DOMAIN tgt : tgt' = [r \in DOMAIN tgt \ {p} |-> tgt[r]]
    /\ edits' = edits + 1
    /\ out' = UserDid
    /\ UNCHANGED <<project, src, db, locks, recent, now, config, pc, tres,
                   pending, hist>>

\* ------------------------------------------------------------ engine calls
\* how long a forward pass may take: no time, or a cooldown window
ElapsedChoices == {0, _sync_cooldown}

\* what a call leaves behind: the engine's state and the returned value
Returned(st, value) ==
    /\ Install(st)
    /\ out' = [value EXCEPT !.log = st.log]

sync_all_returned(r) ==
    Returned(r.st, [Idle EXCEPT !.op = "sync_all", !.results = ResultsOf(r)])

DoSyncAll ==
    \E elapsed \in ElapsedChoices, rev \in BOOLEAN :
        /\ now + elapsed <= MaxTime
        /\ sync_all_returned(sync_all(Cur, elapsed, rev))

DoSyncSingleFile(s) ==
    /\ src[s].exists
    /\ \E r \in {sync_single_file(Cur, s)} :
          Returned(r.st, [Idle EXCEPT !.op = "sync_single_file", !.source = s,
                                      !.result = r.result])

SyncAll ==
    /\ DoSyncAll
    /\ UNCHANGED <<project, config, edits, pc, tres, pending, hist>>

\* ------------------------------------------------------------ specification
\* The user edits both sides and runs full synchronisations.
Next ==
    \/ Advance
    \/ WriteSource
    \/ DeleteSource
    \/ WriteTarget
    \/ MoveTarget
    \/ DeleteTarget
    \/ SyncAll

Spec == Init /\ [][Next]_vars

\* A run of the engine: the clock runs from its origin, the user edits,
\* and full synchronisations are called again and again.
InitSweep ==
    /\ project = [s \in Sources |-> 1]
    /\ src = [s \in Sources |->
                [exists |-> TRUE, content |-> Min(s, MaxContent), mtime |-> 0]]
    /\ tgt = <<>> /\ db = <<>> /\ locks = {} /\ recent = <<>>
    /\ now = 0
    /\ config = [conflict_resolution |-> "latest", move_unlinked_files |-> TRUE,
                 tolerance_seconds |-> tolerance_seconds, enabled |-> Sources,
                 unreadable |-> {}, prefixed |-> {}]
    /\ out = Idle /\ edits = 0
    /\ pc = [t \in Threads |-> "idle"] /\ tres = [t \in Threads |-> NoCall]
    /\ pending = NoPending /\ hist = NoHist

\* one more call of sync_all; hist.stage tells an odd call from an even one
AnotherCall == hist' = [hist EXCEPT !.stage = 1 - @]

SyncAllRepeated ==
    /\ DoSyncAll
    /\ AnotherCall
    /\ UNCHANGED <<project, config, edits, pc, tres, pending>>

NextSweep ==
    \/ Tick
    \/ WriteSource
    \/ DeleteSource
    \/ SyncAllRepeated

\* the clock advances and sync_all is called again and again
SpecSweep ==
    /\ InitSweep /\ [][NextSweep]_vars
    /\ WF_now(Tick) /\ WF_hist(AnotherCall)

\* ------------------------------------------------------------ the store alone
\* Any client of DatabaseManager: the four writing calls, in any order.
value_returned(value) ==
    /\ out' = value
    /\ UNCHANGED <<project, src, tgt, locks, recent, now, config, edits, pc, tres,
                   pending, hist>>

StoreAdd ==
    \E s \in Sources, p \in UserPaths :
        /\ db' = add_file_mapping(Cur, s, p, extract_project_name(Cur, s),
                     generate_target_filename(extract_project_name(Cur, s))).db
        /\ value_returned([Idle EXCEPT !.op = "add_file_mapping", !.source = s,
                              !.target_path = p,
                              !.result = IF IsMapping(get_file_mapping(Cur, s))
                                         THEN "replaced" ELSE "inserted"])

StoreRetarget ==
    \E i \in 1..Len(db), p \in UserPaths :
        /\ db' = update_target_path(Cur, db[i].target_path, p).db
        /\ value_returned([Idle EXCEPT !.op = "update_target_path", !.target_path = p])

StoreTouch ==
    \E i \in 1..Len(db), c \in Contents :
        /\ db' = update_sync_time(Cur, db[i].source_path, md5(c), md5(c), 0, 0).db
        /\ value_returned([Idle EXCEPT !.op = "update_sync_time",
                              !.source = db[i].source_path])

StoreRemove ==
    \E i \in 1..Len(db) :
        /\ db' = remove_mapping(Cur, db[i].source_path).db
        /\ value_returned([Idle EXCEPT !.op = "remove_mapping",
                              !.source = db[i].source_path])

NextStore ==
    \/ StoreAdd
    \/ StoreRetarget
    \/ StoreTouch
    \/ StoreRemove

SpecStore == Init /\ [][NextStore]_vars

\* ------------------------------------------------------------ threads
\* Several threads inside the engine (the watcher's worker, a periodic
\* sync_all, a command): each call is cut at the points where it takes and
\* gives back the engine's mutex.  kind "sync_single_file" is one README of a
\* forward pass, "from_target" and "all" are one target file of
\* reverse_sync_from_target and of reverse_all.

Inside(t) == pc[t] \in {"body", "release"}

\* a thread moves on inside its call
thread_goes(t, where, call) ==
    /\ pc' = [pc EXCEPT ![t] = where]
    /\ tres' = [tres EXCEPT ![t] = call]
    /\ UNCHANGED <<project, config, edits, pending, hist, out>>

\* a thread's call returns
thread_returns(t, call, result) ==
    /\ pc' = [pc EXCEPT ![t] = "idle"]
    /\ tres' = [tres EXCEPT ![t] = NoCall]
    /\ UNCHANGED <<project, config, edits, pending, hist, out>>

\* the lookup a reverse pass makes for a target file before it asks the guard
reverse_called(t, kind, p, m) ==
    /\ Install(m.st)
    /\ IF IsMapping(m.mapping) /\ source_exists(m.st, m.mapping.source_path)
       THEN thread_goes(t, "can_sync",
                [NoCall EXCEPT !.kind = kind, !.source = m.mapping.source_path,
                               !.path = p, !.mapping = m.mapping])
       ELSE thread_returns(t, [NoCall EXCEPT !.kind = kind, !.path = p], "no_mapping")

ThreadCall(t) ==
    /\ pc[t] = "idle"
    /\ \/ \E s \in Sources :
            /\ src[s].exists
            /\ thread_goes(t, "can_sync",
                   [NoCall EXCEPT !.kind = "sync_single_file", !.source = s])
            /\ UNCHANGED <<src, tgt, db, locks, recent, now>>
       \/ \E kind \in {"from_target", "all"}, p \in DOMAIN tgt :
            reverse_called(t, kind, p,
                resolve_target_mapping(Cur, p, kind = "from_target"))

\* if not self._can_sync(source_path): one critical section
ThreadCanSync(t) ==
    /\ pc[t] = "can_sync"
    /\ IF _can_sync(Cur, tres[t].source)
       THEN thread_goes(t, "acquire", tres[t])
       ELSE thread_returns(t, tres[t], "skipped")
    /\ UNCHANGED <<src, tgt, db, locks, recent, now>>

\* if not self._acquire_sync_lock(source_path): another critical section
ThreadAcquire(t) ==
    /\ pc[t] = "acquire"
    /\ IF _acquire_sync_lock_ok(Cur, tres[t].source)
       THEN thread_goes(t, "body", [tres[t] EXCEPT !.began = now])
       ELSE thread_returns(t, tres[t], "locked")
    /\ locks' = _acquire_sync_lock(Cur, tres[t].source).locks
    /\ UNCHANGED <<src, tgt, db, recent, now>>

thread_worked(t, r) ==
    /\ Install(r.st)
    /\ thread_goes(t, "release", [tres[t] EXCEPT !.result = r.result])

\* the decision and the copy, holding the path's lock
ThreadBody(t) ==
    /\ pc[t] = "body"
    /\ IF tres[t].kind = "sync_single_file"
       THEN thread_worked(t, sync_single_file_body(Cur, tres[t].source))
       ELSE thread_worked(t, reverse_decide(Cur, tres[t].source, tres[t].path,
                                            tres[t].mapping))

\* finally: self._release_sync_lock(source_path)
ThreadRelease(t) ==
    /\ pc[t] = "release"
    /\ Install(_release_sync_lock(Cur, tres[t].source))
    /\ thread_returns(t, tres[t], tres[t].result)

NextThreads ==
    \/ Advance
    \/ \E t \in Threads : ThreadCall(t)
    \/ \E t \in Threads : ThreadCanSync(t)
    \/ \E t \in Threads : ThreadAcquire(t)
    \/ \E t \in Threads : ThreadBody(t)
    \/ \E t \in Threads : ThreadRelease(t)

SpecThreads == Init /\ [][NextThreads]_vars

\* The same threads when the decision or the copy may raise: the exception
\* leaves the try block and the finally clause runs.
ThreadBodyRaises(t) ==
    /\ pc[t] = "body"
    /\ thread_goes(t, "release", [tres[t] EXCEPT !.result = "raised"])
    /\ UNCHANGED <<src, tgt, db, locks, recent, now>>

NextLocks ==
    \/ NextThreads
    \/ \E t \in Threads : ThreadBodyRaises(t)

SpecLocks == Init /\ [][NextLocks]_vars

\* a thread that entered the try block takes its next step: the block ends,
\* by a return or by an exception, and then the finally clause runs
ThreadRuns(t) ==
    /\ Inside(t)
    /\ pc' = [pc EXCEPT ![t] = IF pc[t] = "body" THEN "release" ELSE "idle"]

SpecLocksFair == SpecLocks /\ \A t \in Threads : WF_pc(ThreadRuns(t))

\* ------------------------------------------------------------ round trip
\* A first sync_all, then one edit of a mirrored target file, then a second
\* sync_all once the cooldown of its source has elapsed.  hist.stage counts
\* the steps taken; hist.source, hist.path and hist.content are the pair that
\* was edited and the content written.
hist_goes(h) ==
    /\ hist' = h
    /\ UNCHANGED <<project, config, edits, pc, tres, pending>>

\* the pair (s, p) is mapped and both files hold the baseline content
Mirrored(s, p) ==
    /\ source_exists(Cur, s) /\ target_exists(Cur, p)
    /\ get_file_mapping(Cur, s).target_path = p
    /\ src[s].content = tgt[p].content
    /\ get_file_mapping(Cur, s).source_hash = md5(src[s].content)
    /\ get_file_mapping(Cur, s).target_hash = md5(tgt[p].content)

RoundTripFirstSync ==
    /\ hist.stage = 0
    /\ DoSyncAll
    /\ hist_goes([hist EXCEPT !.stage = 1])

RoundTripWriteTarget ==
    /\ hist.stage = 1
    /\ \E s \in Sources, p \in DOMAIN tgt, c \in Contents :
          /\ Mirrored(s, p)
          /\ c # tgt[p].content
          /\ write_target(p, c)
          /\ hist_goes([hist EXCEPT !.stage = 2, !.source = s, !.path = p,
                                    !.content = c])
    /\ out' = UserDid
    /\ UNCHANGED <<src, db, locks, recent, now>>

RoundTripWait ==
    /\ hist.stage \in {1, 2, 3}
    /\ Tick

RoundTripSecondSync ==
    /\ hist.stage = 2
    /\ _can_sync(Cur, hist.source)
    /\ DoSyncAll
    /\ hist_goes([hist EXCEPT !.stage = 3])

NextRoundTrip ==
    \/ RoundTripFirstSync
    \/ RoundTripWriteTarget
    \/ RoundTripWait
    \/ RoundTripSecondSync

SpecRoundTrip == InitAnyContent /\ [][NextRoundTrip]_vars

\* ------------------------------------------------------------ dual modification
\* A first sync_all, then an edit of each side of one mirrored pair (in
\* either order, any seconds apart), then a sync_single_file of the source or
\* a sync_all.  hist.content is the baseline content, hist.sfile and
\* hist.tfile are the two files as they were when the last call began, and
\* hist.flag tells whether the guard admitted the source at that moment.
DualFirstEdit ==
    /\ hist.stage = 1
    /\ \E s \in Sources, p \in DOMAIN tgt, c \in Contents :
          /\ Mirrored(s, p)
          /\ c # src[s].content
          /\ \/ write_source(s, c) /\ UNCHANGED tgt
             \/ write_target(p, c) /\ UNCHANGED src
          /\ hist_goes([hist EXCEPT !.stage = 2, !.source = s, !.path = p,
                                    !.content = src[s].content])
    /\ out' = UserDid
    /\ UNCHANGED <<db, locks, recent, now>>

DualSecondEdit ==
    /\ hist.stage = 2
    /\ \E c \in Contents \ {hist.content, src[hist.source].content,
                            tgt[hist.path].content} :
          IF src[hist.source].content = hist.content
          THEN write_source(hist.source, c) /\ UNCHANGED tgt
          ELSE write_target(hist.path, c) /\ UNCHANGED src
    /\ hist_goes([hist EXCEPT !.stage = 3])
    /\ out' = UserDid
    /\ UNCHANGED <<db, locks, recent, now>>

dual_observed ==
    hist_goes([hist EXCEPT !.stage = 4, !.sfile = src[hist.source],
                           !.tfile = tgt[hist.path],
                           !.flag = IF _can_sync(Cur, hist.source)
                                    THEN "admitted" ELSE "rejected"])

DualSyncSingleFile ==
    /\ hist.stage = 3
    /\ DoSyncSingleFile(hist.source)
    /\ dual_observed

DualSyncAll ==
    /\ hist.stage = 3
    /\ DoSyncAll
    /\ dual_observed

NextDual ==
    \/ RoundTripFirstSync
    \/ DualFirstEdit
    \/ DualSecondEdit
    \/ RoundTripWait
    \/ DualSyncSingleFile
    \/ DualSyncAll

SpecDual == Init /\ [][NextDual]_vars

\* ------------------------------------------------------------ watcher
\* RealtimeSyncManager.start schedules one ReadmeFileHandler per source folder
\* and one for the target folder, then runs the initial sync_all.  Every write
\* of a watched file, by the user or by a copy of the program itself, raises an
\* on_modified / on_created event; pending.source and pending.target are the
\* pending_events of the two kinds of handler, keyed by file path.
\* hist.source and hist.path are the logical file under observation,
\* hist.anchor the time of its reconciliation by the initial sync, and
\* hist.s2t / hist.t2s count the physical copies of that file made while
\* processing a notification that arrived within the cooldown window that
\* follows hist.anchor.  The user edits the file within that window only.

\* Applied to a target path: "<project>-README.md" passes when the project
\* directory's name begins with "readme", as that of project 1 does.  A source
\* file is always named README.md.
_is_readme_file(p) == p.base = 1

_schedule_sync(events, files, event_type, t) ==
    [f \in DOMAIN events \cup files |->
        IF f \in files THEN [event_type |-> event_type, timestamp |-> t]
        ELSE events[f]]

\* the events the copies of one call raise
on_modified(events, log, t) ==
    [source |-> _schedule_sync(events.source,
                    {x.source : x \in {y \in log : y.kind = "t2s"}}, "modified", t),
     target |-> _schedule_sync(events.target,
                    {x.path : x \in {y \in log : y.kind = "s2t" /\ _is_readme_file(y.path)}},
                    "modified", t)]

\* _debounce_worker: an event is processed once it is debounce_time old
due(e) == now - e.timestamp >= debounce_time

taken(events, f) == [g \in DOMAIN events \ {f} |-> events[g]]

_handle_source_changed(st, source_path) ==
    IF ~source_exists(st, source_path) THEN [st |-> st, result |-> "none"]
    ELSE sync_single_file(st, source_path)

target_changed_mapped(st, target_path, source_path) ==
    IF ~source_exists(st, source_path) THEN st
    ELSE IF target_mtime_of(st, target_path) > source_mtime_of(st, source_path)
    THEN update_sync_time(copy2_target_to_source(st, target_path, source_path),
                          source_path,
                          get_file_hash_source(
                              copy2_target_to_source(st, target_path, source_path),
                              source_path),
                          get_file_hash(st, target_path),
                          source_mtime_of(st, source_path),
                          target_mtime_of(st, target_path))
    ELSE st

_handle_target_changed(st, target_path) ==
    IF ~target_exists(st, target_path) THEN st
    ELSE IF ~IsMapping(find_mapping_by_target(st, target_path)) THEN st
    ELSE target_changed_mapped(st, target_path,
                               find_mapping_by_target(st, target_path).source_path)

\* time t lies within the cooldown window after hist.anchor
within_cooldown(t) == hist.anchor <= t /\ t - hist.anchor < _sync_cooldown

copies(log, kind, e) ==
    IF within_cooldown(e.timestamp) /\ \E x \in log : x.kind = kind /\ x.source = hist.source
    THEN 1 ELSE 0

\* _process_file_change has handled event e; events are those still pending
processed(st, value, events, e) ==
    /\ Returned(st, value)
    /\ pending' = on_modified(events, st.log, st.now)
    /\ hist' = [hist EXCEPT !.s2t = @ + copies(st.log, "s2t", e),
                            !.t2s = @ + copies(st.log, "t2s", e)]
    /\ UNCHANGED <<project, config, edits, pc, tres>>

\* RealtimeSyncManager.start: the observers run, then the initial sync_all.
WatchStart ==
    /\ hist.stage = 0
    /\ \E rev \in BOOLEAN : sync_all_returned(sync_all(Cur, 0, rev))
    /\ pending' = on_modified(NoPending, out'.log, now')
    /\ \E s \in Sources :
          /\ IsMapping(get_file_mapping([Cur EXCEPT !.db = db'], s))
          /\ hist' = [hist EXCEPT
                        !.stage = 1, !.source = s, !.anchor = recent'[s],
                        !.path = get_file_mapping([Cur EXCEPT !.db = db'], s).target_path]
    /\ UNCHANGED <<project, config, edits, pc, tres>>

\* The second the clock shows changes only when no event is due: the worker
\* polls twice a second.
WatchTick ==
    /\ hist.stage = 1
    /\ \A s \in DOMAIN pending.source : ~due(pending.source[s])
    /\ \A p \in DOMAIN pending.target : ~due(pending.target[p])
    /\ Tick

\* The user saves the source README of the observed file.
WatchEditSource ==
    /\ hist.stage = 1
    /\ edits < MaxEdits
    /\ within_cooldown(now)
    /\ \E c \in Contents \ {src[hist.source].content} : write_source(hist.source, c)
    /\ pending' = [pending EXCEPT
                     !.source = _schedule_sync(@, {hist.source}, "modified", now)]
    /\ edits' = edits + 1
    /\ out' = UserDid
    /\ UNCHANGED <<project, tgt, db, locks, recent, now, config, pc, tres, hist>>

\* The user saves the target copy of the observed file.
WatchEditTarget ==
    /\ hist.stage = 1
    /\ edits < MaxEdits
    /\ within_cooldown(now)
    /\ target_exists(Cur, hist.path)
    /\ \E c \in Contents \ {tgt[hist.path].content} : write_target(hist.path, c)
    /\ pending' = [pending EXCEPT
                     !.target = _schedule_sync(@, {hist.path} \cap
                                    {p \in {hist.path} : _is_readme_file(p)},
                                    "modified", now)]
    /\ edits' = edits + 1
    /\ out' = UserDid
    /\ UNCHANGED <<project, src, db, locks, recent, now, config, pc, tres, hist>>

\* A source-side handler processes a due event: _handle_source_changed.
WatchSourceEvent ==
    /\ hist.stage = 1
    /\ \E s \in DOMAIN pending.source :
          /\ due(pending.source[s])
          /\ \E r \in {_handle_source_changed(Cur, s)} :
                processed(r.st, [Idle EXCEPT !.op = "_handle_source_changed",
                                             !.source = s, !.result = r.result],
                          [pending EXCEPT !.source = taken(@, s)], pending.source[s])

\* The target-side handler processes a due event: _handle_target_changed.
WatchTargetEvent ==
    /\ hist.stage = 1
    /\ \E p \in DOMAIN pending.target :
          /\ due(pending.target[p])
          /\ processed(_handle_target_changed(Cur, p),
                       [Idle EXCEPT !.op = "_handle_target_changed",
                                    !.target_path = p],
                       [pending EXCEPT !.target = taken(@, p)], pending.target[p])

NextWatch ==
    \/ WatchStart
    \/ WatchTick
    \/ WatchEditSource
    \/ WatchEditTarget
    \/ WatchSourceEvent
    \/ WatchTargetEvent

SpecWatch == Init /\ [][NextWatch]_vars

\* ------------------------------------------------------------ between two syncs
\* A first sync_all, one thing the user does to the mirrored tree, then a
\* second sync_all.  hist.flag names what the user did and hist.before holds
\* the store and the target folder as they were just before the user's step.

\* The user disables source roots in the configuration.
OrphanDisable ==
    /\ hist.stage = 1
    /\ \E roots \in (SUBSET Sources) \ {{}} :
          config' = [config EXCEPT !.enabled = @ \ roots]
    /\ hist' = [hist EXCEPT !.stage = 2, !.flag = "disabled",
                            !.before = [db |-> db, tgt |-> tgt]]
    /\ out' = UserDid
    /\ UNCHANGED <<project, src, tgt, db, locks, recent, now, edits, pc, tres, pending>>

\* The user drops Markdown files into the target root, a subfolder and the
\* unlinked subfolder; files of one name differ in content from folder to folder.
QuarantineDrop ==
    /\ hist.stage = 1
    /\ \E files \in (SUBSET ([dir : {RootDir, SubDir, UnlinkedDir}, base : Projects,
                               ts : {NoTs}] \ DOMAIN tgt)) \ {{}}, c \in Contents :
          tgt' = [p \in DOMAIN tgt \cup files |->
                     IF p \in files
                     THEN [content |-> (c + p.dir) % (MaxContent + 1), mtime |-> now]
                     ELSE tgt[p]]
    /\ hist' = [hist EXCEPT !.stage = 2, !.flag = "dropped",
                            !.before = [db |-> db, tgt |-> tgt']]
    /\ out' = UserDid
    /\ UNCHANGED <<project, src, db, locks, recent, now, config, edits, pc, tres,
                   pending>>

\* DatabaseManager.move_unlinked_files, called on the target folder.
MoveUnlinkedFiles ==
    /\ hist.stage = 2
    /\ hist.flag = "dropped"
    /\ \E rev \in BOOLEAN :
          \E r \in {move_unlinked_files(Cur, rev)} :
             Returned(r.st, [Idle EXCEPT !.op = "move_unlinked_files",
                                                 !.results.unlinked_moved = r.moved])
    /\ hist_goes([hist EXCEPT !.stage = 3])

\* The user moves a mirrored target file to another directory under the target
\* root, keeping its filename, and may edit it on the way.
IdentityMove ==
    /\ hist.stage = 1
    /\ \E s \in Sources, p \in DOMAIN tgt, dir \in {RootDir, SubDir}, edited \in BOOLEAN :
          /\ Mirrored(s, p)
          /\ join(dir, basename(p)) \notin DOMAIN tgt
          /\ \E c \in IF edited THEN Contents \ {tgt[p].content} ELSE {tgt[p].content} :
                tgt' = [q \in (DOMAIN tgt \ {p}) \cup {join(dir, basename(p))} |->
                           IF q = join(dir, basename(p))
                           THEN [content |-> c,
                                 mtime |-> IF edited THEN now ELSE tgt[p].mtime]
                           ELSE tgt[q]]
          /\ hist' = [hist EXCEPT !.stage = 2, !.flag = "moved", !.source = s,
                                  !.path = join(dir, basename(p)),
                                  !.content = tgt'[join(dir, basename(p))].content,
                                  !.before = [db |-> db, tgt |-> tgt, old |-> p]]
    /\ out' = UserDid
    /\ UNCHANGED <<project, src, db, locks, recent, now, config, edits, pc, tres,
                   pending>>

NextUserStep ==
    \/ RoundTripFirstSync
    \/ OrphanDisable
    \/ IdentityMove
    \/ QuarantineDrop
    \/ MoveUnlinkedFiles
    \/ RoundTripWait
    \/ RoundTripSecondSync

SpecUserStep == InitAnyContent /\ [][NextUserStep]_vars

\* ------------------------------------------------------------ conflicts
\* A first sync_all, a conflict policy and a tolerance chosen in the
\* configuration, an edit of one or both sides of a mirrored pair, then either
\* a sync_all or a call of _handle_conflict on the pair.  hist.before holds
\* the files and the store as they were when _handle_conflict was called.
ConflictConfigure ==
    /\ hist.stage = 1
    /\ hist.flag = "none"
    /\ \E resolution \in {"latest", "source_priority", "target_priority", "manual"},
          tolerance \in {1, tolerance_seconds} :
          config' = [config EXCEPT !.conflict_resolution = resolution,
                                   !.tolerance_seconds = tolerance]
    /\ hist' = [hist EXCEPT !.flag = "configured"]
    /\ out' = UserDid
    /\ UNCHANGED <<project, src, tgt, db, locks, recent, now, edits, pc, tres, pending>>

\* _handle_conflict on the edited pair, with its mapping or without one.
HandleConflict ==
    /\ hist.stage \in {2, 3}
    /\ \E mapping \in {get_file_mapping(Cur, hist.source), NoMapping} :
          /\ \E r \in {_handle_conflict(Cur, hist.source, hist.path, mapping)} :
                Returned(r.st, [Idle EXCEPT !.op = "_handle_conflict",
                                            !.source = hist.source,
                                            !.result = r.result])
          /\ hist_goes([hist EXCEPT !.stage = 4,
                          !.before = [src |-> src, tgt |-> tgt, db |-> db,
                                      mapping |-> mapping]])

NextConflict ==
    \/ RoundTripFirstSync
    \/ ConflictConfigure
    \/ DualFirstEdit
    \/ DualSecondEdit
    \/ RoundTripWait
    \/ DualSyncAll
    \/ HandleConflict

SpecConflict == Init /\ [][NextConflict]_vars

\* ------------------------------------------------------------ the engine's API
\* After a first sync_all the user deletes a mirrored source, with or without
\* an edit of its mirror, and calls one of the five synchronisation entry
\* points, on any file, present or not.
SourceDeleted ==
    /\ hist.stage = 1
    /\ \E s \in Sources :
          /\ src[s].exists
          /\ IsMapping(get_file_mapping(Cur, s))
          /\ target_exists(Cur, get_file_mapping(Cur, s).target_path)
          /\ src' = [src EXCEPT ![s] = [exists |-> FALSE, content |-> 0, mtime |-> 0]]
          /\ \/ tgt' = tgt
             \/ \E c \in Contents \ {tgt[get_file_mapping(Cur, s).target_path].content} :
                   write_target(get_file_mapping(Cur, s).target_path, c)
          /\ hist_goes([hist EXCEPT !.stage = 2, !.source = s,
                                    !.path = get_file_mapping(Cur, s).target_path])
    /\ out' = UserDid
    /\ UNCHANGED <<db, locks, recent, now>>

called == hist_goes([hist EXCEPT !.stage = 3])

SyncAllAgain ==
    /\ hist.stage = 2
    /\ DoSyncAll
    /\ called

SyncSingleFile ==
    /\ hist.stage = 2
    /\ \E s \in Sources : \E r \in {sync_single_file(Cur, s)} :
          Returned(r.st, [Idle EXCEPT !.op = "sync_single_file", !.source = s,
                                      !.result = r.result])
    /\ called

ReverseSyncFromTarget ==
    /\ hist.stage = 2
    /\ \E r \in {reverse_sync_from_target(Cur)} :
          Returned(r.st, [Idle EXCEPT !.op = "reverse_sync_from_target",
                                      !.results.scanned = r.scanned,
                                      !.results.reverse_synced = r.synced,
                                      !.results.errors = r.errors])
    /\ called

ReverseAll ==
    /\ hist.stage = 2
    /\ \E force \in BOOLEAN : \E r \in {reverse_all(Cur, force)} :
          Returned(r.st, [Idle EXCEPT !.op = "reverse_all",
                                      !.results.scanned = r.scanned,
                                      !.results.reverse_synced = r.synced,
                                      !.results.errors = r.errors])
    /\ called

ForceSyncTargetToSource ==
    /\ hist.stage = 2
    /\ \E p \in DOMAIN tgt : \E r \in {force_sync_target_to_source(Cur, p)} :
          Returned(r.st, [Idle EXCEPT !.op = "force_sync_target_to_source",
                                      !.target_path = p,
                                      !.result = IF r.result THEN "true" ELSE "false"])
    /\ called

NextApi ==
    \/ RoundTripFirstSync
    \/ SourceDeleted
    \/ RoundTripWait
    \/ SyncAllAgain
    \/ SyncSingleFile
    \/ ReverseSyncFromTarget
    \/ ReverseAll
    \/ ForceSyncTargetToSource

SpecApi == InitAnyContent /\ [][NextApi]_vars

\* ------------------------------------------------------------ a failing file
\* One README loses its read permission after the first sync_all;
\* the user edits sources and renames mirrored files to a name that is no
\* project's (base 0); sync_all runs.
\* hist.before holds the files the forward pass attempted, the files scanned,
\* the files and the store as they were, and what the same call would have left
\* had every file been readable.
PermissionDenied ==
    /\ hist.stage = 1
    /\ config.unreadable = {}
    /\ \E f \in Sources :
          /\ src[f].exists
          /\ config' = [config EXCEPT !.unreadable = {f}]
    /\ out' = UserDid
    /\ UNCHANGED <<project, src, tgt, db, locks, recent, now, edits, pc, tres,
                   pending, hist>>

SourceEdited ==
    /\ hist.stage = 1
    /\ WriteSource

CooldownPassed ==
    /\ hist.stage = 1
    /\ Advance

MirrorRenamed ==
    /\ hist.stage = 1
    /\ edits < MaxEdits
    /\ \E i \in 1..Len(db), dir \in {RootDir, SubDir} :
          /\ db[i].target_path \in DOMAIN tgt
          /\ [dir |-> dir, base |-> 0, ts |-> NoTs] \notin DOMAIN tgt
          /\ tgt' = [q \in (DOMAIN tgt \ {db[i].target_path})
                             \cup {[dir |-> dir, base |-> 0, ts |-> NoTs]} |->
                        IF q \in DOMAIN tgt /\ q # db[i].target_path THEN tgt[q]
                        ELSE tgt[db[i].target_path]]
    /\ edits' = edits + 1
    /\ out' = UserDid
    /\ UNCHANGED <<project, src, db, locks, recent, now, config, pc, tres,
                   pending, hist>>

files_of(st) == [src |-> st.src, tgt |-> st.tgt, db |-> st.db]

SyncAllDenied ==
    /\ hist.stage = 1
    /\ config.unreadable # {}
    /\ \E elapsed \in ElapsedChoices, rev \in BOOLEAN :
          /\ now + elapsed <= MaxTime
          /\ \E r \in {sync_all(Cur, elapsed, rev)} :
                /\ sync_all_returned(r)
                /\ hist_goes([hist EXCEPT !.stage = 2,
                       !.before =
                          [attempted |-> r.attempted,
                           scanned |-> scan_all_sources(Cur),
                           was |-> files_of(Cur),
                           clean |-> files_of(
                               sync_all([Cur EXCEPT !.config.unreadable = {}],
                                        elapsed, rev).st)]])

NextDenied ==
    \/ RoundTripFirstSync
    \/ PermissionDenied
    \/ CooldownPassed
    \/ SourceEdited
    \/ MirrorRenamed
    \/ SyncAllDenied

SpecDenied == InitAnyContent /\ [][NextDenied]_vars

\* ------------------------------------------------------------ the verdicts
\* One pair in any condition: README 1 present or not, its mirror present or
\* not, with any contents and modification times, no mapping or a mapping with
\* any baseline hashes and any sync time, and one of two tolerances.  stage is
\* the scripted position the pair is handed over at.
DecideTimes == {0, 1, 2, MaxTime}
DecidePath == join(RootDir, generate_target_filename(1))
DecideMapping == [NoMapping EXCEPT !.source_path = 1, !.target_path = DecidePath,
                                   !.project_name = 1,
                                   !.renamed_filename = generate_target_filename(1)]

AnyPair(stage) ==
    /\ project = [s \in Sources |-> Min(s, NumProjects)]
    /\ \E file \in {[exists |-> FALSE, content |-> 0, mtime |-> 0]}
                   \cup [exists : {TRUE}, content : Contents, mtime : DecideTimes] :
          src = [s \in Sources |->
                    IF s = 1 THEN file
                    ELSE [exists |-> FALSE, content |-> 0, mtime |-> 0]]
    /\ tgt \in {<<>>} \cup {[p \in {DecidePath} |-> file] :
                               file \in [content : Contents, mtime : DecideTimes]}
    /\ db \in {<<>>} \cup
              {<<[DecideMapping EXCEPT !.source_hash = sh, !.target_hash = th,
                                       !.last_sync_time = t, !.updated_at = t]>> :
                  sh \in {NoHash} \cup {md5(c) : c \in Contents},
                  th \in {NoHash} \cup {md5(c) : c \in Contents},
                  t \in DecideTimes}
    /\ locks = {}
    /\ recent = <<>>
    /\ now = MaxTime
    /\ \E tolerance \in {1, tolerance_seconds} :
          config = [conflict_resolution |-> "latest", move_unlinked_files |-> TRUE,
                    tolerance_seconds |-> tolerance, enabled |-> Sources,
                    unreadable |-> {}, prefixed |-> {}]
    /\ out = Idle
    /\ edits = 0
    /\ pc = [t \in Threads |-> "idle"]
    /\ tres = [t \in Threads |-> NoCall]
    /\ pending = NoPending
    /\ hist = [NoHist EXCEPT !.stage = stage]

InitDecide == AnyPair(0)

\* the files, the store and the mapping handed to the call
observed(mapping) == [src |-> src, tgt |-> tgt, db |-> db, mapping |-> mapping]

\* sync_single_file line 226: the verdict on the pair with the mapping read
\* at line 161.
DetermineSyncAction ==
    /\ hist.stage = 0
    /\ \E mapping \in {get_file_mapping(Cur, 1)} :
          /\ \E d \in {_determine_sync_action(Cur, 1, DecidePath, mapping)} :
                Returned(d.st, [Idle EXCEPT !.op = "_determine_sync_action",
                                            !.source = 1,
                                            !.target_path = DecidePath,
                                            !.result = d.action])
          /\ hist_goes([hist EXCEPT !.stage = 1, !.before = observed(mapping)])

\* sync_single_file lines 228-238: the step taken on that verdict.
ActOnVerdict ==
    /\ hist.stage = 1
    /\ \E r \in {sync_act([st |-> Cur, action |-> out.result], 1, DecidePath,
                          hist.before.mapping)} :
          Returned(r.st, [Idle EXCEPT !.op = "sync_single_file", !.source = 1,
                                      !.target_path = DecidePath,
                                      !.result = r.result])
    /\ hist_goes([hist EXCEPT !.stage = 2, !.flag = out.result])

NextDecide ==
    \/ DetermineSyncAction
    \/ ActOnVerdict

SpecDecide == InitDecide /\ [][NextDecide]_vars

\* ------------------------------------------------------------ reverse passes
\* The same pairs handed to the two reverse passes that consult the baseline.
InitReverse == AnyPair(2)

ReverseAllUnforced ==
    /\ hist.stage = 2
    /\ \E r \in {reverse_all(Cur, FALSE)} :
          Returned(r.st, [Idle EXCEPT !.op = "reverse_all",
                                      !.results.scanned = r.scanned,
                                      !.results.reverse_synced = r.synced,
                                      !.results.errors = r.errors])
    /\ called

NextReverse ==
    \/ ReverseSyncFromTarget
    \/ ReverseAllUnforced

SpecReverse == InitReverse /\ [][NextReverse]_vars

\* ------------------------------------------------------------ the forced pass
\* After a first sync_all the user edits, deletes and moves files on both
\* sides; then reverse_all(force=True) runs, one target file of its loop
\* per step.  hist.before holds the target files still to visit, out the
\* file just visited and the counters so far.
UserPrepares ==
    /\ hist.stage = 1
    /\ \/ WriteSource
       \/ DeleteSource
       \/ WriteTarget
       \/ MoveTarget

forced_results(acc) ==
    [scanned |-> acc.scanned, synced |-> acc.synced, errors |-> acc.errors,
     no_mapping |-> acc.no_mapping]

ForcedScan ==
    /\ hist.stage = 1
    /\ out' = [Idle EXCEPT !.op = "reverse_all",
                           !.results = [scanned |-> Cardinality(DOMAIN tgt),
                                        synced |-> 0, errors |-> 0,
                                        no_mapping |-> 0]]
    /\ hist_goes([hist EXCEPT !.stage = 2, !.before = scan_target_folder(Cur)])
    /\ UNCHANGED <<src, tgt, db, locks, recent, now>>

ForcedOne ==
    /\ hist.stage = 2
    /\ hist.before # <<>>
    /\ \E acc \in {reverse_one([st |-> Cur, scanned |-> out.results.scanned,
                                 synced |-> out.results.synced,
                                 errors |-> out.results.errors,
                                 no_mapping |-> out.results.no_mapping],
                                Head(hist.before), "force")} :
          Returned(acc.st, [Idle EXCEPT !.op = "reverse_all",
                                        !.target_path = Head(hist.before),
                                        !.results = forced_results(acc)])
    /\ hist_goes([hist EXCEPT !.before = Tail(@)])

NextForced ==
    \/ RoundTripFirstSync
    \/ CooldownPassed
    \/ UserPrepares
    \/ ForcedScan
    \/ ForcedOne

SpecForced == InitAnyContent /\ [][NextForced]_vars

\* The same preparation, then the manual resolution of one target file.
ResolveManually ==
    /\ hist.stage = 1
    /\ \E p \in DOMAIN tgt : \E r \in {force_sync_target_to_source(Cur, p)} :
          Returned(r.st, [Idle EXCEPT !.op = "force_sync_target_to_source",
                                      !.target_path = p,
                                      !.result = IF r.result THEN "true" ELSE "false"])
    /\ called

NextManual ==
    \/ RoundTripFirstSync
    \/ CooldownPassed
    \/ UserPrepares
    \/ ResolveManually

SpecManual == InitAnyContent /\ [][NextManual]_vars

\* The same preparation, then a sync_all whose forward pass takes any
\* number of seconds up to the cooldown window.
SyncAllTimed ==
    /\ hist.stage = 1
    /\ \E elapsed \in 0.._sync_cooldown, rev \in BOOLEAN :
          /\ now + elapsed <= MaxTime
          /\ sync_all_returned(sync_all(Cur, elapsed, rev))
    /\ called

NextTimed ==
    \/ RoundTripFirstSync
    \/ CooldownPassed
    \/ UserPrepares
    \/ SyncAllTimed

SpecTimed == InitAnyContent /\ [][NextTimed]_vars

\* The same preparation, while the clock has room for a run after it; then
\* the user walks away and sync_all runs again and again, each run a
\* cooldown window after the one before.  hist.before holds the files and
\* the store as the user left them.
FirstWait ==
    /\ hist.stage = 1
    /\ now + 2 * _sync_cooldown <= MaxTime
    /\ Advance

EditsEnd ==
    /\ hist.stage = 1
    /\ now + _sync_cooldown <= MaxTime
    /\ hist_goes([hist EXCEPT !.stage = 2, !.before = observed(NoMapping)])
    /\ UNCHANGED <<src, tgt, db, locks, recent, now, out>>

SyncAllAfterCooldown ==
    /\ hist.stage = 2
    /\ \E elapsed \in ElapsedChoices, rev \in BOOLEAN :
          /\ now + _sync_cooldown + elapsed <= MaxTime
          /\ sync_all_returned(sync_all([Cur EXCEPT !.now = @ + _sync_cooldown],
                                        elapsed, rev))
    /\ UNCHANGED <<project, config, edits, pc, tres, pending, hist>>

NextConverge ==
    \/ RoundTripFirstSync
    \/ FirstWait
    \/ UserPrepares
    \/ EditsEnd
    \/ SyncAllAfterCooldown

SpecConverge == InitAnyContent /\ [][NextConverge]_vars

\* the next run comes as long as the clock has room for it
NextRunDue ==
    /\ hist.stage = 2
    /\ now + _sync_cooldown <= MaxTime
    /\ now' \in {now + _sync_cooldown + elapsed : elapsed \in ElapsedChoices}

SpecConvergeFair == SpecConverge /\ WF_now(NextRunDue)

\* ------------------------------------------------------------ orphans
\* The source roots may be siblings of which one's path is a string prefix of
\* the other's.  After a first sync_all the user disables roots or deletes a
\* mirrored README, and cleanup_orphaned_mappings is called.
SiblingRoots ==
    /\ hist.stage = 0
    /\ config.prefixed = {}
    /\ \E r \in Sources, s \in Sources :
          /\ r # s
          /\ config' = [config EXCEPT !.prefixed = {<<r, s>>}]
    /\ out' = UserDid
    /\ UNCHANGED <<project, src, tgt, db, locks, recent, now, edits, pc, tres,
                   pending, hist>>

CleanupOrphanedMappings ==
    /\ hist.stage = 2
    /\ Returned(cleanup_orphaned_mappings(Cur),
                [Idle EXCEPT !.op = "cleanup_orphaned_mappings",
                             !.results.scanned = orphaned_count(Cur)])
    /\ called

NextOrphans ==
    \/ SiblingRoots
    \/ RoundTripFirstSync
    \/ OrphanDisable
    \/ SourceDeleted
    \/ CleanupOrphanedMappings

SpecOrphans == InitAnyContent /\ [][NextOrphans]_vars

\* ------------------------------------------------------------ moves and renames
\* After a first sync_all the project name of a README changes (the name is
\* read off the directory layout), the user edits sources and moves or
\* renames mirrors, time passes, and sync_single_file runs for a README in two steps: the move
\* handling of lines 161-223, then the verdict and its execution.
\* hist.before holds the files, the store and the mapping as the call found
\* them, hist.path the path the verdict is taken on, out.target_path the
\* path the call resolved.
ProjectRenamed ==
    /\ hist.stage = 1
    /\ hist.flag = "none"
    /\ \E s \in Sources : \E name \in Projects \ {project[s]} :
          project' = [project EXCEPT ![s] = name]
    /\ hist' = [hist EXCEPT !.flag = "renamed"]
    /\ out' = UserDid
    /\ UNCHANGED <<src, tgt, db, locks, recent, now, config, edits, pc, tres, pending>>

resolved_path(st, source_path) ==
    IF _find_existing_target_file(st,
           generate_target_filename(extract_project_name(st, source_path))) # NoPath
    THEN _find_existing_target_file(st,
             generate_target_filename(extract_project_name(st, source_path)))
    ELSE join(RootDir, generate_target_filename(extract_project_name(st, source_path)))

MoveHandling ==
    /\ hist.stage \in {1, 2}
    /\ \E s \in Sources :
          /\ source_exists(Cur, s)
          /\ _can_sync(Cur, s) /\ _acquire_sync_lock_ok(Cur, s)
          /\ \E h \in {handle_path_change(_acquire_sync_lock(Cur, s), s,
                            get_file_mapping(Cur, s),
                            _find_existing_target_file(Cur,
                                generate_target_filename(extract_project_name(Cur, s))),
                            resolved_path(Cur, s))} :
                /\ ~h.raised
                /\ Returned(h.st, [Idle EXCEPT !.op = "move_handling", !.source = s,
                                               !.target_path = resolved_path(Cur, s)])
                /\ hist_goes([hist EXCEPT !.stage = 3, !.source = s, !.path = h.path,
                                 !.before = observed(get_file_mapping(Cur, s))])

VerdictApplied ==
    /\ hist.stage = 3
    /\ \E r \in {sync_decide(Cur, hist.source, hist.path, hist.before.mapping)} :
          Returned(_release_sync_lock(r.st, hist.source),
                   [Idle EXCEPT !.op = "sync_single_file", !.source = hist.source,
                                !.target_path = hist.path, !.result = r.result])
    /\ hist_goes([hist EXCEPT !.stage = 4])

NextMoved ==
    \/ RoundTripFirstSync
    \/ ProjectRenamed
    \/ SourceEdited
    \/ MirrorRenamed
    \/ IdentityMove
    \/ CooldownPassed
    \/ MoveHandling
    \/ VerdictApplied

SpecMoved == InitAnyContent /\ [][NextMoved]_vars

\* ------------------------------------------------------------ the executors
\* _perform_sync and _perform_reverse_sync called on any pair, with the
\* mapping the store holds for the source (none when the store has none).
\* hist.flag is the direction executed.
PerformSync ==
    /\ hist.stage = 0
    /\ \E action \in {"source_to_target", "target_to_source"} :
          /\ \E r \in {_perform_sync(Cur, 1, DecidePath, extract_project_name(Cur, 1),
                                       generate_target_filename(
                                           extract_project_name(Cur, 1)),
                                       action)} :
                Returned(r.st, [Idle EXCEPT !.op = "_perform_sync", !.source = 1,
                                            !.target_path = DecidePath,
                                            !.result = r.result])
          /\ hist_goes([hist EXCEPT !.stage = 1, !.flag = action,
                           !.before = observed(get_file_mapping(Cur, 1))])

PerformReverseSync ==
    /\ hist.stage = 0
    /\ \E r \in {_perform_reverse_sync(Cur, 1, DecidePath, get_file_mapping(Cur, 1))} :
          Returned(r.st, [Idle EXCEPT !.op = "_perform_reverse_sync", !.source = 1,
                                      !.target_path = DecidePath,
                                      !.result = r.result])
    /\ hist_goes([hist EXCEPT !.stage = 1, !.flag = "target_to_source",
                     !.before = observed(get_file_mapping(Cur, 1))])

NextPerform ==
    \/ PerformSync
    \/ PerformReverseSync

SpecPerform == InitDecide /\ [][NextPerform]_vars

\* ------------------------------------------------------------ properties
TargetPathsOf(rows) == {<<rows[i].source_path, rows[i].target_path>> : i \in 1..Len(rows)}

\* C7: no two mappings in the store have the same target_path.
TargetUnique ==
    \A i, j \in 1..Len(db) : i # j => db[i].target_path # db[j].target_path

\* C8: when two sources derive the same canonical target filename, no
\* sync_all copies one of them onto (or from) a target file that the store
\* maps to the other one.
IdentityNotMerged ==
    out.op = "sync_all" =>
        \A rec \in out.log :
            (rec.kind \in {"s2t", "t2s"} /\ rec.owner # 0 /\ rec.owner # rec.source)
                => project[rec.owner] # project[rec.source]

\* C9: the source_hash and the target_hash stored on a mapping are equal.
BaselineEqual ==
    \A i \in 1..Len(db) : db[i].source_hash = db[i].target_hash

\* a run that did nothing: no copy, move or quarantine, zero counters, and
\* the same target_path on every mapping
no_action(r) ==
    /\ r.st.log = {}
    /\ r.synced = 0 /\ r.reverse_synced = 0
    /\ r.moved_detected = 0 /\ r.unlinked_moved = 0
    /\ TargetPathsOf(r.st.db) = TargetPathsOf(db)

\* C2: a sync_all that follows a completed sync_all, with no change in
\* between and after any elapsed time, copies, moves and quarantines nothing,
\* changes no target_path and reports zero synced, reverse_synced,
\* moved_detected and unlinked_moved.
Idempotent ==
    out.op = "sync_all" =>
        \A elapsed \in ElapsedChoices, rev \in BOOLEAN :
            no_action(sync_all(Cur, elapsed, rev))

\* the rows of the source paths other than s
OtherRows(rows, s) == {rows[i] : i \in {j \in 1..Len(rows) : rows[j].source_path # s}}

RowsOf(rows, s) == {i \in 1..Len(rows) : rows[i].source_path = s}

\* one row per source_path, and after add_file_mapping that row is the new one
OneRowPerSource ==
    /\ \A i, j \in 1..Len(db) : i # j => db[i].source_path # db[j].source_path
    /\ out.op = "add_file_mapping" =>
          /\ Cardinality(RowsOf(db, out.source)) = 1
          /\ \A i \in RowsOf(db, out.source) : db[i].target_path = out.target_path

\* C10: the store holds at most one mapping per source_path, and
\* add_file_mapping on a mapped source_path leaves exactly one row for it,
\* the new one, and the rows of all other source_paths unchanged.
SourceUnique ==
    /\ []OneRowPerSource
    /\ [][out'.op = "add_file_mapping"
             => OtherRows(db', out'.source) = OtherRows(db, out'.source)]_vars

SourceUniqueWitness ==
    /\ out.op = "add_file_mapping" /\ out.result = "replaced"
    /\ Len(db) = NumSources

\* C5: at most one thread at a time is between a successful
\* _acquire_sync_lock and the matching _release_sync_lock for one
\* source_path, and the lock set holds exactly the paths of the threads that
\* are there, so that a thread is turned away ('locked') only by a thread
\* working on the same source_path.
PerPathSerialized ==
    /\ \A t1, t2 \in Threads :
          (t1 # t2 /\ Inside(t1) /\ Inside(t2)) => tres[t1].source # tres[t2].source
    /\ locks = {tres[t].source : t \in {u \in Threads : Inside(u)}}

PerPathSerializedWitness ==
    \E t1, t2 \in Threads :
        /\ Inside(t1) /\ pc[t2] = "acquire"
        /\ tres[t2].source = tres[t1].source

\* C6: no reconciliation of a source_path begins less than the cooldown
\* window after the previous reconciliation of that path was released.
CooldownAdmission ==
    \A t \in Threads :
        (Inside(t) /\ tres[t].source \in DOMAIN recent)
            => tres[t].began - recent[tres[t].source] >= _sync_cooldown

\* C1: after sync_all, a write of B to the target only, and a second
\* sync_all past the cooldown, the source holds B, the target still holds B
\* and the mapping's two baseline hashes are hash(B).
RoundTrip ==
    hist.stage = 3 =>
        /\ source_exists(Cur, hist.source)
        /\ src[hist.source].content = hist.content
        /\ target_exists(Cur, hist.path)
        /\ tgt[hist.path].content = hist.content
        /\ IsMapping(get_file_mapping(Cur, hist.source))
        /\ get_file_mapping(Cur, hist.source).source_hash = md5(hist.content)
        /\ get_file_mapping(Cur, hist.source).target_hash = md5(hist.content)

RoundTripWitness ==
    /\ hist.stage = 3
    /\ src[hist.source].content = hist.content
    /\ out.op = "sync_all"
    /\ out.results.reverse_synced = 1

\* both sides of the pair were edited away from the baseline, to different
\* contents, within the tolerance of each other, when the last call began
DualWithinTolerance ==
    /\ hist.stage = 4
    /\ md5(hist.sfile.content) # md5(hist.content)
    /\ md5(hist.tfile.content) # md5(hist.content)
    /\ md5(hist.sfile.content) # md5(hist.tfile.content)
    /\ Abs(hist.sfile.mtime - hist.tfile.mtime) <= config.tolerance_seconds

\* C3: for a mapped pair with baseline H0, live hashes H1 # H0, H2 # H0,
\* H1 # H2 and modification times within the tolerance, sync_single_file and
\* sync_all leave the target file unchanged; sync_single_file returns
\* 'no_change' when the guard admits the call ('skipped' when it does not),
\* sync_all copies nothing from or to the pair, and no conflict is reported.
DualModificationProtected ==
    DualWithinTolerance =>
        /\ target_exists(Cur, hist.path)
        /\ tgt[hist.path] = hist.tfile
        /\ out.op = "sync_single_file" =>
              out.result = (IF hist.flag = "admitted" THEN "no_change" ELSE "skipped")
        /\ out.op = "sync_all" =>
              /\ out.results.conflicts = 0
              /\ \A rec \in out.log :
                    rec.path # hist.path /\ rec.source # hist.source

DualModificationWitness ==
    /\ DualWithinTolerance
    /\ hist.sfile.mtime > hist.tfile.mtime
    /\ out.op = "sync_single_file"
    /\ out.result = "no_change"

\* C4: loop suppression.  The change notifications of one logical file that
\* arrive within the cooldown window following a reconciliation of that file
\* result in at most one physical source->target copy and at most one
\* target->source copy.
LoopSuppressed == hist.s2t <= 1 /\ hist.t2s <= 1

\* C11: orphan cleanup.  After source roots that have mappings are disabled and
\* sync_all has run, no mapping of a source under a disabled root remains, and
\* every mirrored target file of those mappings exists with its bytes in the
\* unlinked subfolder.
OrphanCleanup ==
    (hist.stage = 3 /\ hist.flag = "disabled") =>
        \A i \in 1..Len(hist.before.db) :
            hist.before.db[i].source_path \notin config.enabled =>
                /\ \A j \in 1..Len(db) :
                       db[j].source_path # hist.before.db[i].source_path
                /\ hist.before.db[i].target_path \in DOMAIN hist.before.tgt =>
                       \E p \in DOMAIN tgt :
                           /\ p.dir = UnlinkedDir
                           /\ p.base = hist.before.db[i].target_path.base
                           /\ tgt[p].content =
                                 hist.before.tgt[hist.before.db[i].target_path].content

\* C12: quarantine never loses data.  move_unlinked_files overwrites no file:
\* after the call every file that was in the target folder, moved or already
\* in the unlinked subfolder, still exists under its name with its bytes, and
\* no file has disappeared.
QuarantineKeepsData ==
    (hist.stage = 3 /\ hist.flag = "dropped" /\ out.op = "move_unlinked_files") =>
        /\ Cardinality(DOMAIN tgt) = Cardinality(DOMAIN hist.before.tgt)
        /\ \A p \in DOMAIN hist.before.tgt :
               \E q \in DOMAIN tgt : q.base = p.base /\ tgt[q] = hist.before.tgt[p]

\* C13: identity stability.  After the user moved a mapped target file to
\* another directory, keeping its filename (edited or not), the next sync_all
\* leaves the file at the new path, leaves no file at the old path nor at the
\* canonical flat path, and the mapping's target_path is the new path.
IdentityStable ==
    (hist.stage = 3 /\ hist.flag = "moved") =>
        /\ target_exists(Cur, hist.path)
        /\ ~target_exists(Cur, hist.before.old)
        /\ \/ hist.path = join(RootDir, basename(hist.path))
           \/ ~target_exists(Cur, join(RootDir, basename(hist.path)))
        /\ get_file_mapping(Cur, hist.source).target_path = hist.path

\* C14: conflict detection.  Under the manual policy, with the source changed
\* at t0 and the target changed to other bytes at t0 + 2 * tolerance,
\* get_conflicts lists the pair with target_newer and not source_newer, before
\* the next sync_all and after it.
ConflictEntry(sfile, tfile) ==
    /\ config.conflict_resolution = "manual"
    /\ tfile.mtime = sfile.mtime + 2 * config.tolerance_seconds
    => \E e \in get_conflicts(Cur) :
           /\ e.source_path = hist.source /\ e.target_path = hist.path
           /\ e.target_newer /\ ~e.source_newer

ConflictListed ==
    /\ hist.stage = 3 => ConflictEntry(src[hist.source], tgt[hist.path])
    /\ (hist.stage = 4 /\ out.op = "sync_all") => ConflictEntry(hist.sfile, hist.tfile)

\* C15: get_conflicts returns exactly the mappings whose source and target
\* both exist and differ in content: each of them is listed, no pair of equal
\* content is listed, and source_newer / target_newer compare the two mtimes
\* and are never both true.
ConflictsExact ==
    /\ \A i \in 1..Len(db) :
          (/\ source_exists(Cur, db[i].source_path)
           /\ target_exists(Cur, db[i].target_path)
           /\ src[db[i].source_path].content # tgt[db[i].target_path].content)
          => \E e \in get_conflicts(Cur) :
                 /\ e.source_path = db[i].source_path
                 /\ e.target_path = db[i].target_path
    /\ \A e \in get_conflicts(Cur) :
          /\ src[e.source_path].content # tgt[e.target_path].content
          /\ e.source_newer = (e.source_mtime > e.target_mtime)
          /\ e.target_newer = (e.target_mtime > e.source_mtime)
          /\ ~(e.source_newer /\ e.target_newer)

\* C16: no resurrection of a deleted source.  A step of sync_all,
\* sync_single_file, reverse_sync_from_target, reverse_all or
\* force_sync_target_to_source never creates a source file that was missing when
\* it started, copies target->source only onto a source that existed, and
\* leaves the bytes and the mtime of a target whose mapped source is missing as
\* they were (sync_all may carry that file, renamed, to the unlinked folder),
\* as long as no existing source mirrors to a file of the same name.
EngineCalled ==
    /\ out'.op \in {"sync_all", "sync_single_file", "reverse_sync_from_target",
                    "reverse_all", "force_sync_target_to_source"}
    /\ <<src, tgt, db, recent, out>> # <<src', tgt', db', recent', out'>>

MissingSourceKept ==
    /\ \A s \in Sources : ~src[s].exists => ~src'[s].exists
    /\ \A e \in out'.log : e.kind = "t2s" => src[e.source].exists
    /\ \A i \in 1..Len(db) :
          (/\ ~src[db[i].source_path].exists
           /\ db[i].target_path \in DOMAIN tgt
           /\ \A s \in Sources : src[s].exists => project[s] # db[i].target_path.base)
          => IF out'.op = "sync_all"
             THEN \E q \in DOMAIN tgt' :
                     /\ q.base = db[i].target_path.base
                     /\ tgt'[q] = tgt[db[i].target_path]
             ELSE /\ db[i].target_path \in DOMAIN tgt'
                  /\ tgt'[db[i].target_path] = tgt[db[i].target_path]

Resolved(resolution) ==
    /\ hist.stage = 4
    /\ out.op = "_handle_conflict"
    /\ config.conflict_resolution = resolution

Untouched ==
    /\ src = hist.before.src
    /\ tgt = hist.before.tgt
    /\ db = hist.before.db

\* C17: manual policy.  _handle_conflict returns 'conflict' for every mapping
\* state and every pair of mtimes, and changes neither file nor the mapping.
ManualUnresolved ==
    Resolved("manual") => (out.result = "conflict" /\ Untouched)

\* C18: source-priority policy.  _handle_conflict always resolves to
\* SourceToTarget: the source content is copied over the target, for every
\* mapping state and every pair of mtimes.
SourcePriorityCopies ==
    Resolved("source_priority")
    => /\ out.result = "synced"
       /\ tgt[hist.path].content = hist.before.src[hist.source].content
       /\ src = hist.before.src

\* C19: target-priority policy.  _handle_conflict always resolves to NoSync and
\* writes neither the source file nor the target file nor the mapping.
TargetPriorityKeeps ==
    Resolved("target_priority") => (out.result = "no_sync" /\ Untouched)

\* a target-priority call outside the recent-edit window of the target: with
\* no mapping, or with a target not modified after the last sync
TargetPriorityWitness ==
    /\ Resolved("target_priority")
    /\ src[hist.source].content # tgt[hist.path].content
    /\ \/ ~IsMapping(hist.before.mapping)
       \/ tgt[hist.path].mtime <= hist.before.mapping.last_sync_time

\* C20: per-file error isolation.  When the synchronisation of one scanned
\* file fails in sync_all, every scanned file is still attempted exactly once
\* in the forward pass, and the source, the mapping and the mirror of every
\* other source end as they would have without the failure.  The sources
\* are independent: no two share a project name or a content hash (current or
\* baseline, of the source or of its mirror), since the engine finds mappings
\* by file name and by content hash.
RowsFor(rows, s) == {rows[i] : i \in {j \in 1..Len(rows) : rows[j].source_path = s}}

HashesOf(files, s) ==
    {md5(files.src[s].content)}
    \cup UNION {{r.source_hash, r.target_hash, get_file_hash(files, r.target_path)} :
                  r \in RowsFor(files.db, s)}

Independent ==
    \A f \in Sources : \A s \in Sources \ {f} :
        /\ project[f] # project[s]
        /\ HashesOf(hist.before.was, f) \cap HashesOf(hist.before.was, s) = {}

SameOutcome(s) ==
    /\ src[s] = hist.before.clean.src[s]
    /\ RowsFor(db, s) = RowsFor(hist.before.clean.db, s)
    /\ \A r \in RowsFor(db, s) :
          /\ (r.target_path \in DOMAIN tgt)
                 = (r.target_path \in DOMAIN hist.before.clean.tgt)
          /\ r.target_path \in DOMAIN tgt
                 => tgt[r.target_path] = hist.before.clean.tgt[r.target_path]

SyncFailed ==
    /\ hist.stage = 2
    /\ out.op = "sync_all"
    /\ \E i \in 1..Len(hist.before.attempted) : failed(hist.before.attempted[i].result)

Handed == [Cur EXCEPT !.src = hist.before.src, !.tgt = hist.before.tgt,
                      !.db = hist.before.db]

\* both files exist, their live hashes differ, and the mapping handed over
\* holds a baseline hash for each side
BaselineKnown ==
    /\ source_exists(Handed, 1) /\ target_exists(Handed, DecidePath)
    /\ get_file_hash_source(Handed, 1) # get_file_hash(Handed, DecidePath)
    /\ IsMapping(hist.before.mapping)
    /\ hist.before.mapping.source_hash # NoHash
    /\ hist.before.mapping.target_hash # NoHash

SourceChanged == get_file_hash_source(Handed, 1) # hist.before.mapping.source_hash
TargetChanged == get_file_hash(Handed, DecidePath) # hist.before.mapping.target_hash

\* C21: when both files exist with different live hashes and the mapping has
\* a baseline hash for both sides, _determine_sync_action returns
\* 'target_to_source' if only the target's hash differs from its baseline and
\* 'source_to_target' if only the source's does, whatever the modification
\* times and the tolerance.
SingleSidePropagation ==
    (hist.stage = 1 /\ BaselineKnown) =>
        /\ (~SourceChanged /\ TargetChanged) => out.result = "target_to_source"
        /\ (SourceChanged /\ ~TargetChanged) => out.result = "source_to_target"

\* only the target changed although the source is the newer file by more than
\* the tolerance, and the verdict is target_to_source
SingleSideWitness ==
    /\ hist.stage = 1 /\ BaselineKnown
    /\ ~SourceChanged /\ TargetChanged
    /\ source_mtime_of(Handed, 1) - target_mtime_of(Handed, DecidePath)
           > config.tolerance_seconds
    /\ out.result = "target_to_source"

\* the pair of README 1 is mapped, both files exist, the target's live hash is
\* its baseline hash and the source's live hash is not
OnlySourceChanged ==
    /\ IsMapping(get_file_mapping(Cur, 1))
    /\ get_file_mapping(Cur, 1).target_path = DecidePath
    /\ source_exists(Cur, 1) /\ target_exists(Cur, DecidePath)
    /\ get_file_hash(Cur, DecidePath) = get_file_mapping(Cur, 1).target_hash
    /\ get_file_mapping(Cur, 1).source_hash # NoHash
    /\ get_file_hash_source(Cur, 1) # get_file_mapping(Cur, 1).source_hash

\* C22: reverse_sync_from_target() and reverse_all(force=False) never copy the
\* target over the source of a mapped pair in which only the source changed
\* since the baseline, whatever the modification times: the source keeps its
\* content.
ReverseKeepsSourceEdit ==
    [][(hist.stage = 2 /\ OnlySourceChanged) => src'[1].content = src[1].content]_vars
\* the verdict _determine_sync_action returned
Verdict == IF hist.stage = 1 THEN out.result ELSE hist.flag

FilesUntouched ==
    src = hist.before.src /\ tgt = hist.before.tgt /\ db = hist.before.db

\* C23: _determine_sync_action returns 'no_sync' whenever the source file does
\* not exist, and then nothing is changed; it returns 'source_to_target'
\* whenever the source exists and the target does not, and the sync that
\* follows leaves a target whose content equals the source's.
ExistenceRules ==
    /\ (hist.stage \in {1, 2} /\ ~source_exists(Handed, 1)) =>
            Verdict = "no_sync" /\ FilesUntouched
    /\ (hist.stage \in {1, 2} /\ source_exists(Handed, 1)
                              /\ ~target_exists(Handed, DecidePath)) =>
            /\ Verdict = "source_to_target"
            /\ src = hist.before.src
            /\ hist.stage = 2 =>
                   /\ target_exists(Cur, DecidePath)
                   /\ tgt[DecidePath].content = src[1].content

\* a non-empty README without a mirror has been given one with its content
ExistenceWitness ==
    /\ hist.stage = 2
    /\ source_exists(Handed, 1) /\ ~target_exists(Handed, DecidePath)
    /\ src[1].content # 0
    /\ target_exists(Cur, DecidePath) /\ tgt[DecidePath].content = src[1].content
\* both files exist and hold the same bytes
Converged ==
    /\ source_exists(Handed, 1) /\ target_exists(Handed, DecidePath)
    /\ get_file_hash_source(Handed, 1) = get_file_hash(Handed, DecidePath)

\* the row of README 1 holds the live hashes and times of the pair
BaselineRefreshed ==
    LET row == get_file_mapping(Cur, 1)
    IN /\ IsMapping(row)
       /\ row.source_hash = get_file_hash_source(Cur, 1)
       /\ row.target_hash = get_file_hash_source(Cur, 1)
       /\ row.source_mtime = source_mtime_of(Cur, 1)
       /\ row.target_mtime = target_mtime_of(Cur, DecidePath)
       /\ row.last_sync_time = now

\* C24: when both files exist and their live hashes are equal,
\* _determine_sync_action returns 'no_sync' and copies nothing, and the mapping
\* of the source then holds the live hash on both sides, the live modification
\* times and the current time as last_sync_time, whatever the baseline was.
ConvergedRefreshesBaseline ==
    (hist.stage = 1 /\ Converged) =>
        /\ out.result = "no_sync"
        /\ out.log = {}
        /\ src = hist.before.src /\ tgt = hist.before.tgt
        /\ IsMapping(hist.before.mapping) => BaselineRefreshed
        /\ ~IsMapping(hist.before.mapping) => db = hist.before.db

\* a baseline of other hashes, other times and an older sync time was replaced
ConvergedWitness ==
    /\ hist.stage = 1 /\ Converged
    /\ IsMapping(hist.before.mapping)
    /\ hist.before.mapping.source_hash \notin {NoHash, get_file_hash_source(Cur, 1)}
    /\ hist.before.mapping.target_hash \notin {NoHash, get_file_hash_source(Cur, 1)}
    /\ hist.before.mapping.last_sync_time < now
    /\ source_mtime_of(Cur, 1) # target_mtime_of(Cur, DecidePath)
    /\ source_mtime_of(Cur, 1) # hist.before.mapping.source_mtime
    /\ BaselineRefreshed
\* both files exist with different bytes and each side differs from its
\* baseline or has none: the case handed to _handle_dual_modification
DualReached ==
    /\ source_exists(Handed, 1) /\ target_exists(Handed, DecidePath)
    /\ get_file_hash_source(Handed, 1) # get_file_hash(Handed, DecidePath)
    /\ hist.before.mapping.source_hash = NoHash \/ SourceChanged
    /\ hist.before.mapping.target_hash = NoHash \/ TargetChanged

\* C25: when both sides changed since the baseline (or there is none),
\* _handle_dual_modification returns 'no_sync' if the target's time since
\* last_sync_time exceeds the source's by more than the tolerance,
\* 'source_to_target' if the source's exceeds the target's by more than the
\* tolerance, 'no_sync' if the two mtimes differ by at most the tolerance, and
\* the verdict is the same for every last_sync_time.
DualTieBreak ==
    (hist.stage = 1 /\ DualReached) =>
        LET source_mtime == source_mtime_of(Handed, 1)
            target_mtime == target_mtime_of(Handed, DecidePath)
            last_sync_time == hist.before.mapping.last_sync_time
            tolerance == config.tolerance_seconds
        IN /\ (target_mtime - last_sync_time) - (source_mtime - last_sync_time)
                  > tolerance => out.result = "no_sync"
           /\ (source_mtime - last_sync_time) - (target_mtime - last_sync_time)
                  > tolerance => out.result = "source_to_target"
           /\ Abs(source_mtime - target_mtime) <= tolerance => out.result = "no_sync"
           /\ \A t \in 0..MaxTime :
                  _handle_dual_modification(Handed, source_mtime, target_mtime, t)
                      = out.result

\* the source is the newer side by more than the tolerance, both files were
\* last modified before the recorded sync, and the source wins
DualTieBreakWitness ==
    /\ hist.stage = 1 /\ DualReached
    /\ IsMapping(hist.before.mapping)
    /\ source_mtime_of(Handed, 1) - target_mtime_of(Handed, DecidePath)
           > config.tolerance_seconds
    /\ hist.before.mapping.last_sync_time > source_mtime_of(Handed, 1)
    /\ out.result = "source_to_target"
\* C26: the verdict 'conflict' is reachable: for some tolerance >= 0 there are
\* two existing files, a mapping with baseline hashes and a sync time, and
\* modification times for which _determine_sync_action returns 'conflict'.
ConflictReachable ==
    \E tolerance \in 0..MaxTime :
    \E sfile \in [exists : {TRUE}, content : Contents, mtime : 0..MaxTime] :
    \E tfile \in [content : Contents, mtime : 0..MaxTime] :
    \E sh \in {NoHash} \cup {md5(c) : c \in Contents} :
    \E th \in {NoHash} \cup {md5(c) : c \in Contents} :
    \E t \in 0..MaxTime :
        _determine_sync_action(
            [Cur EXCEPT !.src[1] = sfile,
                        !.tgt = [p \in {DecidePath} |-> tfile],
                        !.config.tolerance_seconds = tolerance],
            1, DecidePath,
            [DecideMapping EXCEPT !.source_hash = sh, !.target_hash = th,
                                  !.last_sync_time = t]).action = "conflict"
\* the mapping's source file exists and lies in the tree of an enabled root
\* (README s lies in the tree of root s and of no other root)
RootedAndPresent(r) == source_exists(Cur, r.source_path) /\ r.source_path \in config.enabled

\* C27: cleanup_orphaned_mappings removes exactly the mappings whose source
\* file no longer exists or whose source_path is not inside the directory tree
\* of an enabled root (a string prefix is not enough); it leaves the other
\* mappings unchanged, deletes no file and returns the number removed.
OrphansExact ==
    [][out'.op = "cleanup_orphaned_mappings" =>
          /\ db' = SelectSeq(db, RootedAndPresent)
          /\ src' = src /\ tgt' = tgt
          /\ out'.results.scanned = Len(db) - Len(db')]_vars
\* ------------------------------------------------------------ move claims
\* C28: whenever sync_single_file returns for a source that has a mapping,
\* the mapping's target_path is the path of an existing target file, never a
\* path the file was moved away from.
StoreTruthful ==
    (hist.stage = 4 /\ IsMapping(get_file_mapping(Cur, hist.source))) =>
        target_exists(Cur, get_file_mapping(Cur, hist.source).target_path)
\* the mapping handed to the move handling records a file that exists, at
\* another path than the resolved one
RecordedElsewhere ==
    /\ IsMapping(hist.before.mapping)
    /\ hist.before.mapping.target_path # out.target_path
    /\ target_exists(Handed, hist.before.mapping.target_path)

\* the rows are those the call found, but for target_path and updated_at
OnlyPointersMoved ==
    /\ Len(db) = Len(hist.before.db)
    /\ \A i \in 1..Len(db) :
          [db[i] EXCEPT !.target_path = hist.before.db[i].target_path,
                        !.updated_at = hist.before.db[i].updated_at]
              = hist.before.db[i]

\* C29: when the recorded target_path differs from the resolved path, the
\* recorded file exists and the resolved path already holds a file, the move
\* handling of sync_single_file only sets the mapping's target_path to the
\* resolved path: it moves, copies, overwrites and deletes no file.
PointerOnlyRetarget ==
    (hist.stage = 3 /\ RecordedElsewhere /\ target_exists(Handed, out.target_path)) =>
        /\ tgt = hist.before.tgt /\ src = hist.before.src
        /\ out.log = {}
        /\ get_file_mapping(Cur, hist.source).target_path = out.target_path
        /\ OnlyPointersMoved

\* the recorded file and the file at the resolved path hold different bytes,
\* and both are as they were after the mapping was retargeted
PointerOnlyWitness ==
    /\ hist.stage = 3 /\ RecordedElsewhere /\ target_exists(Handed, out.target_path)
    /\ tgt[hist.before.mapping.target_path].content # tgt[out.target_path].content
    /\ tgt = hist.before.tgt
    /\ get_file_mapping(Cur, hist.source).target_path = out.target_path
\* the canonical filename of a mapped README changed, the recorded file
\* exists, no file is at the new path, and the README has zero bytes
EmptySourceRenamed ==
    /\ RecordedElsewhere
    /\ basename(hist.before.mapping.target_path) # basename(out.target_path)
    /\ ~target_exists(Handed, out.target_path)
    /\ source_exists(Handed, hist.source)
    /\ hist.before.src[hist.source].content = 0

\* C30: when the canonical filename of a mapped source changed, the recorded
\* target file exists, the new destination holds no file and the source has
\* zero bytes, sync_single_file does not move the recorded file: it stays at
\* its old path with unchanged content, a new target file is created at the
\* new path from the source, and the mapping's target_path becomes the new path.
EmptySourceKeepsTarget ==
    (hist.stage \in {3, 4} /\ EmptySourceRenamed) =>
        /\ target_exists(Cur, hist.before.mapping.target_path)
        /\ tgt[hist.before.mapping.target_path]
               = hist.before.tgt[hist.before.mapping.target_path]
        /\ target_exists(Cur, out.target_path)
        /\ tgt[out.target_path].content = src[hist.source].content
        /\ src = hist.before.src
        /\ get_file_mapping(Cur, hist.source).target_path = out.target_path

\* sync_single_file has returned in that case: the non-empty recorded file is
\* in place, an empty file is at the new path and the mapping points at it
EmptySourceWitness ==
    /\ hist.stage = 4 /\ EmptySourceRenamed
    /\ target_exists(Cur, hist.before.mapping.target_path)
    /\ target_exists(Cur, out.target_path)
    /\ tgt[hist.before.mapping.target_path].content # 0
    /\ get_file_mapping(Cur, hist.source).target_path = out.target_path
    /\ out.result = "no_change"
\* ------------------------------------------------------------ executor claims
\* the store holds a mapping of README 1 to the file copied, with the live
\* hashes of the two files, which are equal
StoreUpdated ==
    /\ IsMapping(get_file_mapping(Cur, 1))
    /\ get_file_mapping(Cur, 1).target_path = DecidePath
    /\ get_file_mapping(Cur, 1).source_hash = get_file_hash_source(Cur, 1)
    /\ get_file_mapping(Cur, 1).target_hash = get_file_hash(Cur, DecidePath)
    /\ get_file_hash_source(Cur, 1) = get_file_hash(Cur, DecidePath)

\* C31: after every execution of _perform_sync that returns 'synced' and of
\* _perform_reverse_sync that returns 'reverse_synced', whether or not a
\* mapping existed before, a mapping of the source exists, its target_path is
\* the file written or read, and its source_hash and target_hash are the live
\* hashes of the two files, which are equal.
PostCopyStoreUpdate ==
    (hist.stage = 1 /\ out.op \in {"_perform_sync", "_perform_reverse_sync"}
                    /\ out.result \in {"synced", "reverse_synced"}) => StoreUpdated
\* ------------------------------------------------------------ move detection
\* the store after step 1 of sync_all (lines 89-95)
MovesApplied == apply_moved(Cur, detect_moved_files(Cur))

\* C32: the move-detection step of sync_all changes a mapping's target_path
\* only to an unmapped target file that has the content hash recorded on the
\* mapping, and only when the mapping's recorded target no longer exists: a
\* mapping whose recorded file still exists is never retargeted to another
\* file of identical content.
MovedOnlyWhenGone ==
    [][out'.op = "sync_all" =>
          \A i \in 1..Len(db) :
              MovesApplied.db[i].target_path # db[i].target_path =>
                  /\ ~IsMapping(find_mapping_by_target(Cur, MovesApplied.db[i].target_path))
                  /\ get_file_hash(Cur, MovesApplied.db[i].target_path)
                         \in {db[i].source_hash, db[i].target_hash}
                  /\ ~target_exists(Cur, db[i].target_path)]_vars
\* ------------------------------------------------------------ guard claims
\* the paths some thread holds between its acquisition and its release
InProgress == {tres[t].source : t \in {u \in Threads : Inside(u)}}

\* a path leaves the lock set only by the release of the thread that holds
\* it, which then returns, and the release stamps the path with its time
ReleasedOnce ==
    \A f \in locks \ locks' :
        /\ \E t \in Threads : /\ pc[t] = "release" /\ tres[t].source = f
                               /\ pc'[t] = "idle"
        /\ f \in DOMAIN recent' /\ recent'[f] = now

\* C33: every successful _acquire_sync_lock of a path is followed by exactly
\* one _release_sync_lock of it, also when the decision or the copy raises,
\* and a caller that failed to acquire never releases: the lock set is
\* exactly the set of paths under reconciliation, no path stays locked
\* forever, and each release stamps the path's cooldown time with its time.
LockReleaseGuaranteed ==
    /\ [](locks = InProgress)
    /\ [][ReleasedOnce]_vars
    /\ \A f \in Sources : (f \in locks) ~> (f \notin locks)

\* one thread's body has raised and its release is due, while another
\* path has just been released and stamped
LockReleaseWitness ==
    /\ \E t \in Threads : /\ pc[t] = "release" /\ tres[t].result = "raised"
                           /\ tres[t].source \in locks
    /\ \E f \in DOMAIN recent : f \notin locks /\ recent[f] = now
\* the entry the release at time t left for path f
Entry(f, t) == f \in DOMAIN recent /\ recent[f] = t

\* C34: in a run of repeated sync_all calls with the clock advancing, every
\* entry of the cooldown map is eventually removed once it is older than
\* twice the cooldown window.
CooldownEvicted ==
    \A f \in Sources, t \in 0..MaxTime :
        (Entry(f, t) /\ now - t > _sync_cooldown * 2) ~> ~Entry(f, t)

\* the sweep itself keeps every entry that is inside the cooldown window
SweepKeepsWindow ==
    \A f \in DOMAIN recent :
        now - recent[f] <= _sync_cooldown * 2
            => f \in DOMAIN _cleanup_old_syncs(Cur).recent
\* Thread t has left the critical section of _acquire_sync_lock, has not
\* entered that of _release_sync_lock, and the work ahead of it writes the
\* mapping store.
WritesStore(t) ==
    /\ pc[t] = "body"
    /\ db # (IF tres[t].kind = "sync_single_file"
             THEN sync_single_file_body(Cur, tres[t].source).st.db
             ELSE reverse_decide(Cur, tres[t].source, tres[t].path,
                                 tres[t].mapping).st.db)

\* C35: every mutation of the mapping store happens while the engine's
\* mutex is held, so no two threads are ever writing the store at the same
\* time.
StoreSerialized ==
    \A t, u \in Threads : t # u => ~(WritesStore(t) /\ WritesStore(u))

\* the lock set and the cooldown map change only inside the critical
\* sections of _acquire_sync_lock and _release_sync_lock
GuardUnderMutex ==
    [][locks' # locks \/ recent' # recent =>
          \E t \in Threads : pc[t] \in {"acquire", "release"} /\ pc'[t] # pc[t]]_vars
\* ------------------------------------------------------------ forced reverse
\* the target file the forced pass visits next, and the mapping it resolves to
Visited == Head(hist.before)

VisitedMapping == resolve_target_mapping(Cur, Visited, FALSE).mapping

\* the visited file resolves to a mapping whose source exists and passes the
\* concurrency guard
Eligible ==
    /\ IsMapping(VisitedMapping)
    /\ src[VisitedMapping.source_path].exists
    /\ Visited \in DOMAIN tgt
    /\ _can_sync(Cur, VisitedMapping.source_path)
    /\ _acquire_sync_lock_ok(Cur, VisitedMapping.source_path)

\* C36: reverse_all(force=True) copies the target over the source for every
\* target file that resolves to a mapping, whose source and target exist,
\* whose content differs and that passes the guard, whichever side changed
\* or is newer; it copies nothing for equal contents; a target file that
\* resolves to no mapping is counted in no_mapping and nothing is written.
ForcedCopiesDifference ==
    [][hist.stage = 2 /\ hist.before # <<>> =>
          /\ tgt' = tgt
          /\ Eligible /\ src[VisitedMapping.source_path].content # tgt[Visited].content
                => /\ src'[VisitedMapping.source_path].content = tgt[Visited].content
                   /\ out'.results.synced = out.results.synced + 1
          /\ Eligible /\ src[VisitedMapping.source_path].content = tgt[Visited].content
                => src' = src /\ out'.results.synced = out.results.synced
          /\ ~IsMapping(VisitedMapping)
                => /\ src' = src /\ db' = db
                   /\ out'.results.no_mapping = out.results.no_mapping + 1]_vars

\* one forced pass has copied a mirror over its source and has met a file
\* without mapping
ForcedWitness ==
    /\ hist.stage = 2 /\ hist.before = <<>>
    /\ out.results.synced > 0 /\ out.results.no_mapping > 0
\* ------------------------------------------------------------ manual resolution
\* the mapping of target file p: the one recorded for its path, else one
\* that records the hash of its content
FoundFor(p) ==
    IF IsMapping(find_mapping_by_target(Cur, p)) THEN find_mapping_by_target(Cur, p)
    ELSE find_mapping_by_hash(Cur, md5(tgt[p].content))

NothingChanged == src' = src /\ tgt' = tgt /\ db' = db

\* C37: force_sync_target_to_source returns False and changes no file and no
\* mapping when no mapping is found, by path or by content hash, or when the
\* mapped source does not exist; when it returns True the source of the
\* mapping found for the target holds the target's content, and no other
\* file was written.
ManualResolution ==
    [][\A p \in DOMAIN tgt :
          hist.stage = 1 /\ out'.op = "force_sync_target_to_source"
                         /\ out'.target_path = p =>
              /\ ~IsMapping(FoundFor(p)) => out'.result = "false"
              /\ IsMapping(FoundFor(p)) /\ ~src[FoundFor(p).source_path].exists
                    => out'.result = "false"
              /\ out'.result = "false" => NothingChanged
              /\ out'.result = "true" =>
                    /\ IsMapping(FoundFor(p))
                    /\ src'[FoundFor(p).source_path].exists
                    /\ src'[FoundFor(p).source_path].content = tgt[p].content
                    /\ tgt' = tgt
                    /\ \A s \in Sources \ {FoundFor(p).source_path} :
                          src'[s] = src[s]]_vars

\* a file that no mapping records by path has been resolved by its hash
\* and copied, with its modification time, over the source
ManualWitness ==
    /\ out.op = "force_sync_target_to_source" /\ out.result = "true"
    /\ \A i \in 1..Len(db) : db[i].target_path # out.target_path
    /\ \E e \in out.log : e.kind = "t2s"
    /\ \E s \in Sources : /\ src[s].exists
                           /\ src[s].content = tgt[out.target_path].content
                           /\ src[s].mtime = tgt[out.target_path].mtime
                           /\ src[s].mtime > 0
\* ------------------------------------------------------------ one run, one copy
\* the physical copies a call made between source s and any target file
CopiesOf(log, s) == {e \in log : e.source = s /\ e.kind \in {"s2t", "t2s"}}

\* C38: within one sync_all run a source_path that the forward pass
\* reconciled is skipped by the run's reverse pass when that pass reaches it
\* less than the cooldown after its release (its cooldown stamp stays the
\* forward pass's), so that no pair is copied in both directions and each
\* pair undergoes at most one physical copy.
OneCopyPerRun ==
    [][out'.op = "sync_all" /\ now' - now < _sync_cooldown =>
          \A s \in Sources :
              /\ src[s].exists /\ _can_sync(Cur, s)
                    => s \in DOMAIN recent' /\ recent'[s] = now
              /\ Cardinality(CopiesOf(out'.log, s)) <= 1]_vars

\* the forward pass copied a README to its mirror, and the reverse pass came
\* by one or two seconds later and left the pair alone
OneCopyWitness ==
    /\ out.op = "sync_all" /\ hist.stage = 3
    /\ \E s \in Sources :
          /\ s \in DOMAIN recent /\ recent[s] < now
          /\ now - recent[s] < _sync_cooldown
          /\ \E e \in CopiesOf(out.log, s) : e.kind = "s2t"
\* ------------------------------------------------------------ convergence
\* the files and the store as the user left them
WalkedAway == [Cur EXCEPT !.src = hist.before.src, !.tgt = hist.before.tgt,
                          !.db = hist.before.db]

\* in state st the pair of README s is mapped to target file p, both files
\* exist and differ, and exactly one side differs from its baseline: that
\* side holds c
ChangedTo(st, s, p, c) ==
    /\ IsMapping(get_file_mapping(st, s))
    /\ get_file_mapping(st, s).target_path = p
    /\ st.src[s].exists /\ p \in DOMAIN st.tgt
    /\ st.src[s].content # st.tgt[p].content
    /\ \/ /\ get_file_mapping(st, s).source_hash = md5(st.src[s].content)
          /\ get_file_mapping(st, s).target_hash
                 \notin {NoHash, md5(st.tgt[p].content)}
          /\ st.tgt[p].content = c
       \/ /\ get_file_mapping(st, s).target_hash = md5(st.tgt[p].content)
          /\ get_file_mapping(st, s).source_hash
                 \notin {NoHash, md5(st.src[s].content)}
          /\ st.src[s].content = c

\* README s and its target file, be it the file at p or the file the
\* mapping names now, hold c, and the baseline holds their hashes
SettledOn(s, p, c) ==
    /\ IsMapping(get_file_mapping(Cur, s))
    /\ src[s].exists /\ src[s].content = c
    /\ \E q \in {p, get_file_mapping(Cur, s).target_path} :
          q \in DOMAIN tgt /\ tgt[q].content = c
    /\ get_file_mapping(Cur, s).source_hash = md5(c)
    /\ get_file_mapping(Cur, s).target_hash = md5(c)

\* C39: if a mapped pair differs because exactly one side changed since the
\* baseline and no further edits occur, sync_all invoked again and again, a
\* cooldown apart, reaches a state where both files of the pair hold the
\* changed side's content and the baseline holds their hashes; the pair
\* stays so from then on, and so does the target_path of its mapping.
EventuallyConverged ==
    /\ \A s \in Sources, p \in UserPaths, c \in Contents :
          (hist.stage = 2 /\ ChangedTo(WalkedAway, s, p, c))
              ~> []SettledOn(s, p, c)
    /\ [][\A s \in Sources, p \in UserPaths, c \in Contents :
            hist.stage = 2 /\ ChangedTo(WalkedAway, s, p, c) /\ SettledOn(s, p, c)
                => get_file_mapping(Cur, s).target_path' = get_file_mapping(Cur, s).target_path]_vars

\* The same with a user who only rewrites files that are already there, a
\* README or a file of the target folder, and never adds, moves or deletes
\* one.
RewritesOnly ==
    /\ hist.stage = 1
    /\ edits < MaxEdits
    /\ \/ \E s \in Sources, c \in Contents :
             src[s].exists /\ write_source(s, c) /\ UNCHANGED tgt
       \/ \E p \in DOMAIN tgt, c \in Contents :
             write_target(p, c) /\ UNCHANGED src
    /\ edits' = edits + 1
    /\ out' = UserDid
    /\ UNCHANGED <<project, db, locks, recent, now, config, pc, tres,
                   pending, hist>>

NextRewrites ==
    \/ RoundTripFirstSync
    \/ FirstWait
    \/ RewritesOnly
    \/ EditsEnd
    \/ SyncAllAfterCooldown

SpecRewritesFair == InitAnyContent /\ [][NextRewrites]_vars /\ WF_now(NextRunDue)

SettledOnMapping(s, p, c) ==
    /\ SettledOn(s, p, c)
    /\ get_file_mapping(Cur, s).target_path = p
    /\ p \in DOMAIN tgt /\ tgt[p].content = c

\* With such a user the pair converges on the mapping's own target file and
\* the mapping keeps naming it.
ConvergedOnMapping ==
    \A s \in Sources, p \in UserPaths, c \in Contents :
        (hist.stage = 2 /\ ChangedTo(WalkedAway, s, p, c))
            ~> []SettledOnMapping(s, p, c)
====
